---- MODULE Spec2Model ----
(***************************************************************************)
(* Model of PanzerChasm's server-side map simulation (server/map.cpp):     *)
(* the procedure state machine driven by Map::Tick, the commands that      *)
(* procedures run on their edges, the links that start and return          *)
(* procedures, and the map-end callback.                                    *)
(*                                                                         *)
(* Time is counted in integer time units.  A stage is a fixed-point value   *)
(* with StageOne standing for 1.0f; a procedure's speed is given in stage   *)
(* units per time unit (procedure.speed * procedures_speed_scale).          *)
(* Procedures, static models and dynamic walls are numbered from 1 here     *)
(* (from 0 in the source); model ids and map cells are numbered from 0.     *)
(***************************************************************************)
EXTENDS Integers, Sequences, FiniteSets, TLC

\* ------------------------------------------------------------- bounds
\* Latest time passed to any operation.
MaxTime == 3
\* Largest step of time between two operations.
MaxDelta == 1
\* Side of the (square) map grid, MapData::c_map_size scaled down.
c_map_size == 2
\* History counters saturate here.
CountCap == 2
\* Tick is not started once a model id has been advanced past this.
MaxModelId == 3

\* Largest distance of an intersection along a shot's ray.
MaxDistance == 2

\* Rockets and mines get ids up to this.
MaxShots == 2
\* Latest time passed to an operation on rockets and mines.
MaxCombatTime == 31

\* Entries of the level's monster list; players that join the map.
MaxMapMonsters == 2
MaxPlayers == 2
\* Monsters and players on a map whose monsters move.
MaxEntities == 3
\* SendUpdateMessages calls between two ClearUpdateEvents calls.
MaxSends == 2
\* Events the monsters queue between two ClearUpdateEvents calls.
MaxMonsterEvents == 1

\* ------------------------------------------------------------- constants
\* Seconds after which a rocket, a mine is removed; seconds a mine prepares.
max_rocket_flight_s == 16
max_mine_age_s == 30
mines_preparation_time_s == 16
\* Constants::max_float, the reach of a shot of infinite speed.
max_float == 1000
\* 1.0f of a stage.
StageOne == 12
\* 1.0f of a coordinate: positions are fixed-point values.
PosScale == 4096
\* GameConstants::player_radius.
player_radius == 1024
\* g_commands_coords_scale, 1.0f / 256.0f of a coordinate.
g_commands_coords_scale == 16
\* GameConstants::player_height, walls_height, player_z_pull_distance.
player_height == 4096
walls_height == 8192
player_z_pull_distance == 1024
\* GameConstants::death_ticks_per_second.
death_ticks_per_second == 3
\* c_max_collide_distance of the pass that collides monsters together.
c_max_collide_distance == 32768
player_interact_radius == 2048
\* c_length_eps of the rockets loop: 1 / 64.
c_length_eps == 64
\* GameConstants::rockets_speed and rockets_gravity_scale, per second.
rockets_speed == 1024
rockets_gravity_scale == 512
\* The ceiling plane of ProcessShot, z = 2.
ceiling_z == 8192
\* Smoke trail sprites per unit of a rocket's way.
c_particels_per_unit == 2

Max(a, b) == IF a >= b THEN a ELSE b
Min(a, b) == IF a <= b THEN a ELSE b
Inc(n) == Min(n + 1, CountCap)

\* ------------------------------------------------------------- level data
MovementStates == {"None", "StartWait", "Movement", "BackWait", "ReverseMovement"}
KeyColors == {"red", "green", "blue"}

Command(id, args) == [id |-> id, args |-> args]

Procedure(sd, bw, sp, ed, lk, keys, msgs, cmds, sw) ==
    [ start_delay_s |-> sd, back_wait_s |-> bw, speed |-> sp, end_delay_s |-> ed,
      locked |-> lk,
      red_key_required |-> "red" \in keys,
      green_key_required |-> "green" \in keys,
      blue_key_required |-> "blue" \in keys,
      first_message_number |-> msgs[1],
      lock_message_number |-> msgs[2],
      on_message_number |-> msgs[3],
      action_commands |-> cmds,
      linked_switches |-> sw ]

Link(x, y, proc_id, type) == [x |-> x, y |-> y, proc_id |-> proc_id, type |-> type]

\* Model descriptions and geometry by model id (0-based: entry id + 1).
\* 0: a switch, 1: a breakable barrel, 2: its damaged, still breakable variant.
models_description ==
    << [ac |-> "Switch", break_limit |-> 0, blow_effect |-> 0, radius |-> 1024,
        break_sfx_number |-> 0],
       [ac |-> "None",   break_limit |-> 10, blow_effect |-> 1, radius |-> 1024,
        break_sfx_number |-> 5],
       [ac |-> "None",   break_limit |-> 6, blow_effect |-> 1, radius |-> 0,
        break_sfx_number |-> 0] >>

\* Rocket types by rocket type id (0-based: entry id + 1): a bullet of
\* infinite speed (no model file), a rocket, a reflecting grenade, a rocket
\* that leaves a smoke trail.
rockets_description ==
    << [infinite_speed |-> TRUE,  power |-> 6,  reflect |-> FALSE,
        model_file_name |-> "", blow_effect |-> 1, smoke_trail_effect_id |-> 0,
        gravity_force |-> 0],
       [infinite_speed |-> FALSE, power |-> 6,  reflect |-> FALSE,
        model_file_name |-> "rocket", blow_effect |-> 2, smoke_trail_effect_id |-> 0,
        gravity_force |-> 0],
       [infinite_speed |-> FALSE, power |-> 10, reflect |-> TRUE,
        model_file_name |-> "grenade", blow_effect |-> 3, smoke_trail_effect_id |-> 0,
        gravity_force |-> 1],
       [infinite_speed |-> FALSE, power |-> 6,  reflect |-> FALSE,
        model_file_name |-> "missile", blow_effect |-> 4, smoke_trail_effect_id |-> 1,
        gravity_force |-> 0] >>

\* The ids of the monsters (players included) on the map.
Monsters == {1, 2}

models == << [frame_count |-> 3, z_min |-> 0, z_max |-> 2048],
            [frame_count |-> 1, z_min |-> 0, z_max |-> 2048],
            [frame_count |-> 1, z_min |-> 0, z_max |-> 1024] >>

\* game_resources_->monsters_description by monster id (0-based: entry id + 1);
\* entry 0 describes the player.
monsters_description == << [w_radius |-> 1024], [w_radius |-> 1024] >>

\* map_data_->walls_textures by texture id (0-based: entry id + 1): gso[0]
\* lets monsters through, gso[1] lets shots through.
walls_textures ==
    [id \in 1 .. 8 |-> [gso |-> IF id = 4 THEN << TRUE, TRUE >> ELSE << FALSE, FALSE >>]]

\* The level's static models (with the cell each stands on) and dynamic walls.
map_static_models == << [model_id |-> 0, x |-> 0, y |-> 0], [model_id |-> 1, x |-> 1, y |-> 0] >>
map_dynamic_walls == << [texture_id |-> 7, x |-> 0, y |-> 1] >>

Cells == 0 .. (c_map_size * c_map_size - 1)

\* map_data_->map_index[ x + y * c_map_size ]
IndexElementAt(x, y) ==
    IF \E m \in DOMAIN map_static_models : map_static_models[m].x = x /\ map_static_models[m].y = y
    THEN [type |-> "StaticModel",
          index |-> CHOOSE m \in DOMAIN map_static_models :
                        map_static_models[m].x = x /\ map_static_models[m].y = y]
    ELSE IF \E d \in DOMAIN map_dynamic_walls : map_dynamic_walls[d].x = x /\ map_dynamic_walls[d].y = y
    THEN [type |-> "DynamicWall",
          index |-> CHOOSE d \in DOMAIN map_dynamic_walls :
                        map_dynamic_walls[d].x = x /\ map_dynamic_walls[d].y = y]
    ELSE [type |-> "None", index |-> 0]

map_index == [c \in Cells |-> IndexElementAt(c % c_map_size, c \div c_map_size)]

\* Level 1: a key-gated door with messages and a start delay longer than its
\* movement, started also by the barrel's destruction.
Level1 ==
    [ procedures |-> <<
        Procedure(3, 1, 12, 0, FALSE, {"red"}, <<1, 2, 0>>,
                  << Command("PlayAnimation", << >>) >>,
                  << [x |-> 0, y |-> 0] >>) >>,
      links |-> << Link(1, 0, 1, "Destroy") >> ]

\* Level 2: an end-of-map procedure that never closes by itself and switches
\* wind and a death zone on while it moves; shooting the wall or the barrel
\* starts it.
Level2 ==
    [ procedures |-> <<
        Procedure(0, 0, 4, 2, FALSE, {}, <<0, 0, 3>>,
                  << Command("Wind", <<0, 0, 1, 0, 1, -1>>),
                     Command("Death", <<1, 0, 5, 1, 0, 300, 9>>) >>,
                  << >>) >>,
      links |-> << Link(0, 1, 1, "Shoot"), Link(1, 0, 1, "Shoot") >> ]

\* Level 3: an instantaneous, self-locking nonstop procedure that keeps its
\* fields on and explodes the barrel, and an initially locked one, started by
\* the barrel's destruction, that unlocks the first, lifts the dynamic wall
\* and moves the barrel.
Level3 ==
    [ procedures |-> <<
        Procedure(1, 2, 0, 0, FALSE, {}, <<0, 0, 0>>,
                  << Command("Lock", <<1>>),
                     Command("Wind", <<0, 1, 1, 1, -1, 0>>),
                     Command("Death", <<0, 0, 0, 1, 2, 4, 5>>),
                     Command("Nonstop", << >>),
                     Command("Explode", <<1, 0>>) >>,
                  << >>),
        Procedure(0, 1, 6, 3, TRUE, {}, <<0, 4, 0>>,
                  << Command("Unlock", <<1>>),
                     Command("Change", <<0, 1, 9>>),
                     Command("Change", <<1, 0, 164>>),
                     Command("Up", <<0, 1, 64, 0>>),
                     Command("Move", <<1, 0, 128, 64, 0>>) >>,
                  << [x |-> 0, y |-> 0], [x |-> 5, y |-> 0] >>) >>,
      links |-> << Link(0, 1, 1, "Shoot"), Link(1, 0, 2, "Destroy") >> ]

\* Level 4: two doors worked by the player's steps. The first, behind a red
\* key, opens from the tile (0, 0) and is called back from the tile (1, 0);
\* the second, which lifts the dynamic wall, opens from the tile (1, 1) and
\* from the barrel and is called back from the dynamic wall.
Level4 ==
    [ procedures |-> <<
        Procedure(1, 1, 12, 0, FALSE, {"red"}, <<0, 0, 0>>, << >>, << >>),
        Procedure(1, 1, 12, 0, FALSE, {}, <<0, 0, 0>>,
                  << Command("Up", <<0, 1, 64, 0>>) >>, << >>) >>,
      links |-> << Link(0, 0, 1, "Floor"), Link(1, 0, 1, "ReturnFloor"),
                   Link(1, 1, 2, "Floor"), Link(0, 1, 2, "Return"),
                   Link(1, 0, 2, "Link") >> ]

\* Level 5: Level 4 with a second door that also gives the dynamic wall the
\* texture 9, one past the end of walls_textures.
Level5 ==
    [ Level4 EXCEPT !.procedures[2].action_commands =
                        << Command("Change", <<0, 1, 9>>) >> \o @ ]

\* Level 6: a procedure that locks the door beside it when it starts to move;
\* the door, with a first and a lock message, is started also by a shot at
\* the dynamic wall and by the barrel's destruction.
Level6 ==
    [ procedures |-> <<
        Procedure(0, 2, 12, 0, FALSE, {}, <<0, 0, 0>>, << Command("Lock", <<2>>) >>, << >>),
        Procedure(0, 1, 12, 0, FALSE, {}, <<1, 2, 0>>, << >>, << >>) >>,
      links |-> << Link(0, 1, 2, "Shoot"), Link(1, 0, 2, "Destroy") >> ]

\* Level 7: a door with the switch at (0, 0), and a procedure that turns that
\* switch into the model 3, one past the end of models.
Level7 ==
    [ procedures |-> <<
        Procedure(0, 1, 12, 0, FALSE, {}, <<0, 0, 0>>, << >>, << [x |-> 0, y |-> 0] >>),
        Procedure(0, 1, 12, 0, FALSE, {}, <<0, 0, 0>>,
                  << Command("Change", <<0, 0, 166>>) >>, << >>) >>,
      links |-> << Link(0, 0, 1, "Floor"), Link(1, 1, 2, "Floor") >> ]

Levels == {Level1, Level2, Level3}

\* ------------------------------------------------------------- state
VARIABLES
    map_data_,              \* the level data, fixed at construction
    map_end_callback_,      \* TRUE when a map-end callback was given (not nullptr)
    procedures_,            \* ProcedureState of every procedure
    static_models_,         \* StaticModel of every static model
    dynamic_walls_,         \* DynamicWall of every dynamic wall (texture only)
    wind_field_,            \* per cell: the wind vector
    death_field_,           \* per cell: damage and vertical band
    map_end_triggered_,     \* the map-end flag
    absolute_action_stage,  \* per procedure: the stage MoveMapObjects last applied
    current_time,           \* the latest time passed to an operation
    pc,                     \* "idle", or the phase of the running Tick
    tick_p,                 \* Tick's loop index over the procedures
    text_messages,          \* text message numbers sent by the last operation
    \* history
    immediate_runs,         \* per procedure: immediate-command runs since its activation
    active_since,           \* per procedure: the time of its last activation
    end_raised,             \* procedures whose end_delay check raised the flag in this Tick
    end_calls,              \* per procedure: map-end callbacks it raised since its activation
    first_sent,             \* per procedure: "first activation" messages sent so far
    callback_calls,         \* map-end callback invocations in the current Tick
    callback_saw_flag,      \* map_end_triggered_ as seen by the last callback
    moved_state,            \* per procedure: movement_state MoveMapObjects last saw
    \* rockets and mines
    rockets_,                       \* the live rockets, in the vector's order
    next_rocket_id_,                \* the id the next rocket or mine gets
    mines_,                         \* the planted mines, in the vector's order
    rockets_birth_messages_,        \* rocket ids, in the order of the messages
    rockets_death_messages_,
    dynamic_items_birth_messages_,  \* mine ids, in the order of the messages
    dynamic_items_death_messages_,
    particles_effects_messages_,    \* effect ids, in the order of the messages
    hit_calls,                      \* history: the Hit calls of the last rockets loop
    destroy_calls,                  \* history: ProcedureProcessDestroy calls of that loop
    scenes_met,                     \* history: what each rocket's ray met in that loop
    loop_visits,                    \* history: the ids the last rockets or mines loop took up
    \* one ProcessShot call
    shot,                           \* its arguments and the intersections on its ray
    shot_result,                    \* the HitResult it returned
    \* monsters and players
    map_monsters,                   \* map_data_->monsters, fixed at construction
    monsters_,                      \* entity id -> the monster or player object
    players_,                       \* entity id -> the player object
    next_monster_id_,               \* the counter behind GetNextMonsterId
    entities,                       \* the state of every monster and player object
    spawn_ids,                      \* history: the ids handed out, in order
    tick_order,                     \* the order in which Tick's loops visit monsters_
    tick_pairs,                     \* the pairs the collision pass has yet to visit
    pass_corrections,               \* history: the corrections of the running pass
    \* the other per-tick event queues
    sprite_effects_,                    \* effect ids of the smoke trails
    map_events_sounds_messages_,        \* sound ids
    monsters_parts_birth_messages_,     \* [monster_id, part_id] of body parts
    monster_linked_sounds_messages_,    \* [monster_id, sound_id]
    monsters_sounds_messages_,          \* [monster_id, monster_sound_id]
    walk,                           \* history: the ProcessPlayerPosition call since the Tick
    grenade,                        \* a reflecting rocket shot straight up or down
    death_run,                      \* a monster in a death zone over consecutive Ticks
    \* the messages sender
    deliveries,                     \* per queue: how often each queued event was sent
    sends_since_clear,              \* SendUpdateMessages calls since the queues were cleared
    sender,                         \* the rocket messages the messages sender was given
    \* the sound engine and its driver
    sources_,                       \* Source of every channel index
    channels,                       \* driver_.GetChannels(): Channel of every index
    driver_locks,                   \* LockChannels calls not yet matched by UnlockChannels
    sound_pc,                       \* where the sound engine's thread is
    sound_i,                        \* the index i of the loop it is in
    tick_start                      \* history: sources_ and channels when Tick took the lock

vars == << map_data_, map_end_callback_, procedures_, static_models_, dynamic_walls_,
           wind_field_, death_field_, map_end_triggered_, absolute_action_stage,
           current_time, pc, tick_p, text_messages,
           immediate_runs, active_since, end_raised, end_calls, first_sent,
           callback_calls, callback_saw_flag, moved_state,
           rockets_, next_rocket_id_, mines_, rockets_birth_messages_,
           rockets_death_messages_, dynamic_items_birth_messages_,
           dynamic_items_death_messages_, particles_effects_messages_,
           hit_calls, destroy_calls, scenes_met, loop_visits, shot, shot_result,
           map_monsters, monsters_, players_, next_monster_id_, entities, spawn_ids,
           tick_order, tick_pairs, pass_corrections,
           sprite_effects_, map_events_sounds_messages_, monsters_parts_birth_messages_,
           monster_linked_sounds_messages_, monsters_sounds_messages_,
           walk, grenade, death_run, deliveries, sends_since_clear, sender,
           sources_, channels, driver_locks, sound_pc, sound_i, tick_start >>

combat_vars == << rockets_, next_rocket_id_, mines_, rockets_birth_messages_,
                  rockets_death_messages_, dynamic_items_birth_messages_,
                  dynamic_items_death_messages_, particles_effects_messages_,
                  hit_calls, destroy_calls, scenes_met, loop_visits >>
sound_vars == << sources_, channels, driver_locks, sound_pc, sound_i, tick_start >>
shot_vars == << shot, shot_result, walk, grenade, death_run, sound_vars >>
entity_vars == << map_monsters, monsters_, players_, next_monster_id_, entities, spawn_ids >>
pass_vars == << tick_order, tick_pairs, pass_corrections >>
monster_event_vars == << monsters_parts_birth_messages_, monster_linked_sounds_messages_,
                         monsters_sounds_messages_ >>
sink_vars == << deliveries, sends_since_clear, sender >>
event_vars == << monster_event_vars, sink_vars, sprite_effects_, map_events_sounds_messages_ >>
other_vars == << entity_vars, pass_vars, monster_event_vars, sink_vars >>
rest_vars == << other_vars, sprite_effects_, map_events_sounds_messages_ >>

Procs == DOMAIN map_data_.procedures

\* The part of the map that procedures, commands and links work on.
World ==
    [ procedures_ |-> procedures_, static_models_ |-> static_models_,
      dynamic_walls_ |-> dynamic_walls_, wind_field_ |-> wind_field_,
      death_field_ |-> death_field_,
      immediate_runs |-> immediate_runs, active_since |-> active_since,
      end_calls |-> end_calls, first_sent |-> first_sent,
      particles_effects_messages_ |-> particles_effects_messages_,
      hit_calls |-> hit_calls, destroy_calls |-> destroy_calls,
      loop_visits |-> loop_visits,
      rockets_ |-> rockets_, rockets_death_messages_ |-> rockets_death_messages_,
      entities |-> entities,
      sprite_effects_ |-> sprite_effects_,
      map_events_sounds_messages_ |-> map_events_sounds_messages_ ]

SetWorld(w) ==
    /\ procedures_' = w.procedures_
    /\ static_models_' = w.static_models_
    /\ dynamic_walls_' = w.dynamic_walls_
    /\ wind_field_' = w.wind_field_
    /\ death_field_' = w.death_field_
    /\ immediate_runs' = w.immediate_runs
    /\ active_since' = w.active_since
    /\ end_calls' = w.end_calls
    /\ first_sent' = w.first_sent

ModelInRange(model_id) == model_id < Len(models_description)

\* The base geometry of the level data: a model stands on the corner of its
\* cell, a dynamic wall runs along the x axis on the edge of its cell.
BaseModelPos(map_model) ==
    [x |-> map_model.x * PosScale, y |-> map_model.y * PosScale, z |-> 0]
BaseVertPos(map_wall) ==
    << [x |-> map_wall.x * PosScale, y |-> map_wall.y * PosScale],
       [x |-> (map_wall.x + 1) * PosScale, y |-> map_wall.y * PosScale] >>

InitStaticModel(in_model) ==
    [ model_id |-> in_model.model_id,
      health |-> IF ModelInRange(in_model.model_id)
                 THEN models_description[in_model.model_id + 1].break_limit ELSE 0,
      animation_state |->
          IF ModelInRange(in_model.model_id)
             /\ models_description[in_model.model_id + 1].ac = "Switch"
          THEN "SingleFrame" ELSE "Animation",
      animation_start_time |-> 0,
      animation_start_frame |-> 0,
      current_animation_frame |-> 0,
      pos |-> BaseModelPos(in_model),
      angle |-> 0,
      baze_z |-> 0 ]

InitProcedureState(procedure) ==
    [ locked |-> procedure.locked,
      first_message_printed |-> FALSE,
      movement_state |-> "None",
      movement_stage |-> 0,
      last_state_change_time |-> 0 ]

\* The map after construction from one of `levels`.
InitMap(levels) ==
    /\ map_data_ \in levels
    /\ map_end_callback_ \in (IF map_data_ = Level2 THEN BOOLEAN ELSE {TRUE})
    /\ procedures_ = [p \in DOMAIN map_data_.procedures |->
                        InitProcedureState(map_data_.procedures[p])]
    /\ static_models_ = [m \in DOMAIN map_static_models |-> InitStaticModel(map_static_models[m])]
    /\ dynamic_walls_ = [d \in DOMAIN map_dynamic_walls |->
                            [ texture_id |-> map_dynamic_walls[d].texture_id,
                              vert_pos |-> << [x |-> 0, y |-> 0], [x |-> 0, y |-> 0] >>,
                              z |-> 0 ]]
    /\ wind_field_ = [c \in Cells |-> <<0, 0>>]
    /\ death_field_ = [c \in Cells |-> [damage |-> 0, z_bottom |-> 0, z_top |-> 0]]
    /\ map_end_triggered_ = FALSE
    /\ absolute_action_stage = [p \in DOMAIN map_data_.procedures |-> 0]
    /\ current_time = 0
    /\ pc = "idle"
    /\ tick_p = 1
    /\ text_messages = << >>
    /\ immediate_runs = [p \in DOMAIN map_data_.procedures |-> 0]
    /\ active_since = [p \in DOMAIN map_data_.procedures |-> 0]
    /\ end_raised = {}
    /\ end_calls = [p \in DOMAIN map_data_.procedures |-> 0]
    /\ first_sent = [p \in DOMAIN map_data_.procedures |-> 0]
    /\ callback_calls = 0
    /\ callback_saw_flag = FALSE
    /\ moved_state = [p \in DOMAIN map_data_.procedures |-> "None"]

\* No rocket was shot and no mine planted yet.
InitCombat ==
    /\ rockets_ = << >>
    /\ next_rocket_id_ = 1
    /\ mines_ = << >>
    /\ rockets_birth_messages_ = << >>
    /\ rockets_death_messages_ = << >>
    /\ dynamic_items_birth_messages_ = << >>
    /\ dynamic_items_death_messages_ = << >>
    /\ particles_effects_messages_ = << >>
    /\ hit_calls = << >>
    /\ destroy_calls = << >>
    /\ scenes_met = << >>
    /\ loop_visits = << >>

\* ------------------------------------------------------------- entities
\* The difficulty the map is constructed with, a bit of the difficulty flags.
difficulty_ == 1

RECURSIVE BitAnd(_, _)
BitAnd(a, b) ==
    IF a = 0 \/ b = 0 THEN 0
    ELSE (a % 2) * (b % 2) + 2 * BitAnd(a \div 2, b \div 2)

Pos(x, y, z) == [x |-> x, y |-> y, z |-> z]

\* MapData::Monster: an entry with monster_id 0 is a player spawn point and
\* its difficulty_flags field holds the number of the spawn point.
MapMonster(x, y, angle, monster_id, difficulty_flags) ==
    [ pos |-> [x |-> x * PosScale, y |-> y * PosScale], angle |-> angle,
      monster_id |-> monster_id, difficulty_flags |-> difficulty_flags ]

\* Two spawn points, a monster of every difficulty, one of difficulty 1 only
\* and one that is left out at difficulty 1.
MonsterEntries ==
    { MapMonster(1, 0, 1, 0, 1), MapMonster(0, 1, 2, 0, 2),
      MapMonster(1, 1, 3, 1, 7), MapMonster(1, 1, 1, 1, 1),
      MapMonster(1, 1, 0, 1, 2) }

MonsterLists == UNION { [1 .. n -> MonsterEntries] : n \in 0 .. MaxMapMonsters }

\* The player objects, which live outside the map.
Players == { << "player", i >> : i \in 1 .. MaxPlayers }

SquareDistance(a, b) == (a.x - b.x) * (a.x - b.x) + (a.y - b.y) * (a.y - b.y)

\* The static models that GetFloorLevel takes as a step of the floor.
FloorModels(pos, radius) ==
    { m \in DOMAIN map_static_models :
        LET id == map_static_models[m].model_id
            model_pos == [x |-> map_static_models[m].x * PosScale,
                          y |-> map_static_models[m].y * PosScale]
        IN  /\ ModelInRange(id)
            /\ models_description[id + 1].ac = "None"
            /\ models_description[id + 1].radius > 0
            /\ SquareDistance(pos, model_pos)
                   <= (models_description[id + 1].radius + radius)
                          * (models_description[id + 1].radius + radius)
            /\ 10 * models[id + 1].z_max < 12 * PosScale }

GetFloorLevel(pos, radius) ==
    LET tops == { models[map_static_models[m].model_id + 1].z_max :
                      m \in FloorModels(pos, radius) }
    IN  IF tops = {} THEN 0 ELSE CHOOSE z \in tops : \A other \in tops : other <= z

\* ++next_monster_id_: the new value of the counter is the id returned.
GetNextMonsterId_PostIncrement(counter) ==
    [next_monster_id_ |-> counter + 1, id |-> counter]

GetNextMonsterId(counter) ==
    [next_monster_id_ |-> counter + 1, id |-> counter + 1]

\* Monster::Monster: at the entry's position, on the floor, alive.
NewMonster(map_monster) ==
    [ monster_id |-> map_monster.monster_id,
      pos |-> Pos(map_monster.pos.x, map_monster.pos.y, GetFloorLevel(map_monster.pos, 0)),
      angle |-> map_monster.angle,
      health |-> 1,
      on_floor |-> FALSE,
      noclip |-> FALSE,
      activated_procedure |-> 0 ]

\* The constructor's loop over the level's monster list, from entry i on.
RECURSIVE SpawnMonstersFrom(_, _, _)
SpawnMonstersFrom(list, i, m) ==
    IF i > Len(list) THEN m
    ELSE IF list[i].monster_id = 0 THEN SpawnMonstersFrom(list, i + 1, m)
    ELSE IF BitAnd(list[i].difficulty_flags, difficulty_) = 0
    THEN SpawnMonstersFrom(list, i + 1, m)
    ELSE LET next == GetNextMonsterId(m.next_monster_id_)
             object == << "monster", i >>
         IN  SpawnMonstersFrom(list, i + 1,
                 [ monsters_ |-> (next.id :> object) @@ m.monsters_,
                   next_monster_id_ |-> next.next_monster_id_,
                   entities |-> (object :> NewMonster(list[i])) @@ m.entities,
                   spawn_ids |-> Append(m.spawn_ids, next.id) ])

NoEntities == [id \in {} |-> id]

\* The ten per-tick event queues, by name.
EventQueues ==
    [ sprite_effects_ |-> sprite_effects_,
      rockets_birth_messages_ |-> rockets_birth_messages_,
      rockets_death_messages_ |-> rockets_death_messages_,
      dynamic_items_birth_messages_ |-> dynamic_items_birth_messages_,
      dynamic_items_death_messages_ |-> dynamic_items_death_messages_,
      particles_effects_messages_ |-> particles_effects_messages_,
      monsters_parts_birth_messages_ |-> monsters_parts_birth_messages_,
      map_events_sounds_messages_ |-> map_events_sounds_messages_,
      monster_linked_sounds_messages_ |-> monster_linked_sounds_messages_,
      monsters_sounds_messages_ |-> monsters_sounds_messages_ ]

\* ------------------------------------------------------------- sound data
\* The channels of the driver and the sources of the engine, one source for
\* every channel.
c_max_channels == 2
ChannelIds == 1 .. c_max_channels

\* A pointer to sound data is the number of the sound in global_sounds_, or
\* nullptr.
nullptr == -1

\* global_sounds_ by sound number (0-based: entry number + 1): sample_count_
\* of a loaded sound, or nullptr for a sound that was not loaded.
global_sounds_ == << 2, nullptr, 1 >>
SoundNumbers == 0 .. (Len(global_sounds_) - 1)

\* After construction every source is free; the driver starts with every
\* channel inactive.
InitSound ==
    /\ sources_ = [i \in ChannelIds |-> [is_free |-> TRUE, sound_id |-> 0, pos_samples |-> 0]]
    /\ channels = [i \in ChannelIds |-> [is_active |-> FALSE, volume |-> 0,
                                         position_samples |-> 0,
                                         src_sound_data |-> nullptr]]
    /\ driver_locks = 0
    /\ sound_pc = "idle"
    /\ sound_i = 1
    /\ tick_start = [sources_ |-> sources_, channels |-> channels]

\* After construction the queues that Shoot, PlantMine and Tick do not own
\* are empty and nothing was sent.
NoEvents ==
    /\ sprite_effects_ = << >>
    /\ map_events_sounds_messages_ = << >>
    /\ monsters_parts_birth_messages_ = << >>
    /\ monster_linked_sounds_messages_ = << >>
    /\ monsters_sounds_messages_ = << >>
    /\ walk = << >>
    /\ grenade = << >>
    /\ death_run = << >>
    /\ deliveries = [q \in DOMAIN EventQueues |-> << >>]
    /\ sends_since_clear = 0
    /\ sender = [last |-> << >>, dead |-> {}, first_id |-> 1]
    /\ InitSound

\* The containers after construction from one of `lists`; the counter's
\* start value is set outside map.cpp and is one of `firsts`, and every
\* player object remembers an activated procedure or none.
InitEntities(lists, firsts, remembered) ==
    /\ map_monsters \in lists
    /\ NoEvents
    /\ tick_order = << >>
    /\ tick_pairs = << >>
    /\ pass_corrections = << >>
    /\ players_ = NoEntities
    /\ \E first \in firsts, activated \in [Players -> remembered] :
          LET m == SpawnMonstersFrom(map_monsters, 1,
                       [ monsters_ |-> NoEntities, next_monster_id_ |-> first,
                         entities |-> [p \in Players |->
                                          [ monster_id |-> 0, pos |-> Pos(0, 0, 0),
                                            angle |-> 0, health |-> 1,
                                            on_floor |-> FALSE,
                                            noclip |-> FALSE,
                                            activated_procedure |-> activated[p] ]],
                         spawn_ids |-> << >> ])
          IN  /\ monsters_ = m.monsters_
              /\ next_monster_id_ = m.next_monster_id_
              /\ entities = m.entities
              /\ spawn_ids = m.spawn_ids

NoMonsters == InitEntities({<< >>}, {0}, {0})

NoShot == [object_type |-> "None", object_index |-> 0, distance |-> 0]

Init ==
    /\ InitMap(Levels)
    /\ InitCombat
    /\ NoMonsters
    /\ shot = [candidates |-> << >>, max_distance |-> 0, skip_monster_id |-> 0]
    /\ shot_result = NoShot

\* ------------------------------------------------------------- procedures
SetMovement(w, p, state, stage, t) ==
    [w EXCEPT !.procedures_[p] =
        [@ EXCEPT !.movement_state = state,
                  !.movement_stage = stage,
                  !.last_state_change_time = t]]

\* The history of an activation ends when the procedure is back in None.
ClearHistory(w, p) ==
    IF w.procedures_[p].movement_state # "None" THEN w
    ELSE [w EXCEPT !.immediate_runs[p] = 0, !.active_since[p] = 0, !.end_calls[p] = 0]

ActivateProcedure(w, p, t) ==
    [SetMovement(w, p, "StartWait", 0, t) EXCEPT
        !.immediate_runs[p] = 0, !.active_since[p] = t, !.end_calls[p] = 0]

ProcedureProcessDestroy(w, p, t) ==
    ActivateProcedure([w EXCEPT !.procedures_[p].locked = FALSE,
                                !.destroy_calls = Append(@, p)], p, t)

\* Variant: a shot starts a locked procedure too.
ProcedureProcessShoot_IgnoreLock(w, p, t) ==
    IF w.procedures_[p].movement_state # "None" THEN w
    ELSE ActivateProcedure(w, p, t)

ProcedureProcessShoot(w, p, t) ==
    IF w.procedures_[p].movement_state # "None" THEN w
    ELSE IF w.procedures_[p].locked THEN w
    ELSE ActivateProcedure(w, p, t)

\* Calls ProcedureProcessShoot / ProcedureProcessDestroy for the links of the
\* given kind on the given element, in the order of map_data_->links.
RECURSIVE ProcessElementLinksFrom(_, _, _, _, _, _)
ProcessElementLinksFrom(w, i, element_type, index, link_type, t) ==
    IF i > Len(map_data_.links) THEN w
    ELSE LET link == map_data_.links[i]
             index_element == map_index[link.x + link.y * c_map_size]
             hit == /\ index_element.type = element_type
                    /\ index_element.index = index
                    /\ link.type = link_type
             w1 == IF ~hit THEN w
                   ELSE IF link_type = "Shoot" THEN ProcedureProcessShoot(w, link.proc_id, t)
                   ELSE ProcedureProcessDestroy(w, link.proc_id, t)
         IN ProcessElementLinksFrom(w1, i + 1, element_type, index, link_type, t)

ProcessElementLinks(w, element_type, index, link_type, t) ==
    ProcessElementLinksFrom(w, 1, element_type, index, link_type, t)

ActivateSwitch_Always(w, switch_pos, inverse_animation, t) ==
    IF switch_pos.x >= c_map_size \/ switch_pos.y >= c_map_size THEN w
    ELSE LET index_element == map_index[switch_pos.x + switch_pos.y * c_map_size]
         IN IF index_element.type # "StaticModel" THEN w
            ELSE [w EXCEPT !.static_models_[index_element.index] =
                    [@ EXCEPT !.animation_start_time = t,
                              !.animation_state = IF inverse_animation
                                                  THEN "SingleReverseAnimation"
                                                  ELSE "SingleAnimation",
                              !.animation_start_frame = 0]]

\* The switch at one SwitchPos reacts only while it shows a single frame.
ActivateSwitch(w, switch_pos, inverse_animation, t) ==
    IF switch_pos.x >= c_map_size \/ switch_pos.y >= c_map_size THEN w
    ELSE LET index_element == map_index[switch_pos.x + switch_pos.y * c_map_size]
             model == w.static_models_[index_element.index]
         IN IF index_element.type # "StaticModel" THEN w
            ELSE IF model.animation_state # "SingleFrame" THEN w
            ELSE IF inverse_animation
            THEN [w EXCEPT !.static_models_[index_element.index] =
                    [@ EXCEPT !.animation_start_time = t,
                              !.animation_state = "SingleReverseAnimation",
                              !.animation_start_frame =
                                  IF model.model_id < Len(models)
                                  THEN models[model.model_id + 1].frame_count - 1
                                  ELSE 0]]
            ELSE [w EXCEPT !.static_models_[index_element.index] =
                    [@ EXCEPT !.animation_start_time = t,
                              !.animation_state = "SingleAnimation",
                              !.animation_start_frame = 0]]

RECURSIVE ActivateProcedureSwitchesFrom(_, _, _, _, _)
ActivateProcedureSwitchesFrom(w, i, procedure, inverse_animation, t) ==
    IF i > Len(procedure.linked_switches) THEN w
    ELSE ActivateProcedureSwitchesFrom(
             ActivateSwitch(w, procedure.linked_switches[i], inverse_animation, t),
             i + 1, procedure, inverse_animation, t)

ActivateProcedureSwitches(w, procedure, inverse_animation, t) ==
    ActivateProcedureSwitchesFrom(w, 1, procedure, inverse_animation, t)

\* The cells of the rectangle args[1..4] = x0, y0, x1, y1 that lie on the map.
CommandCells(command) ==
    { xy[1] + xy[2] * c_map_size :
        xy \in (command.args[1] .. Min(command.args[3], c_map_size - 1))
               \X (command.args[2] .. Min(command.args[4], c_map_size - 1)) }

ProcessWind(w, command, activate) ==
    [w EXCEPT !.wind_field_ =
        [c \in Cells |->
            IF c \in CommandCells(command)
            THEN (IF activate THEN <<command.args[5], command.args[6]>> ELSE <<0, 0>>)
            ELSE @[c]]]

ProcessDeathZone(w, command, activate) ==
    [w EXCEPT !.death_field_ =
        [c \in Cells |->
            IF c \in CommandCells(command)
            THEN (IF activate
                  THEN [damage |-> command.args[7] % 256,
                        z_bottom |-> Max(Min(command.args[5], 255), 0),
                        z_top |-> Max(Min(command.args[6], 255), 0)]
                  ELSE [@[c] EXCEPT !.damage = 0])
            ELSE @[c]]]

\* Variant: no particle effect is emitted.
EmitModelDestructionEffects_None(w, model_number) == w

\* A sound id is a named id of Sound::SoundId, or "" for id 0, and an offset.
PlayMapEventSound(w, sound_id) ==
    [w EXCEPT !.map_events_sounds_messages_ = Append(@, sound_id)]

EmitModelDestructionEffects(w, model_number) ==
    LET model == w.static_models_[model_number]
        description == models_description[model.model_id + 1]
        w1 == [w EXCEPT !.particles_effects_messages_ =
                            Append(@, description.blow_effect % 100)]
    IN IF ~ModelInRange(model.model_id) THEN w
       ELSE IF description.break_sfx_number # 0
       THEN PlayMapEventSound(w1, << "", description.break_sfx_number >>)
       ELSE w1

DestroyModel(w, model_index) ==
    LET model_id == w.static_models_[model_index].model_id + 1
    IN [EmitModelDestructionEffects(w, model_index) EXCEPT !.static_models_[model_index] =
            [@ EXCEPT !.model_id = model_id,
                      !.health = IF ModelInRange(model_id)
                                 THEN models_description[model_id + 1].break_limit
                                 ELSE 0]]

ChangeCommand(w, command) ==
    LET x == command.args[1]
        y == command.args[2]
        id == command.args[3]
        index_element == map_index[x + y * c_map_size]
        model == w.static_models_[index_element.index]
    IN IF ~(x < c_map_size /\ y < c_map_size) THEN w
       ELSE IF index_element.type = "StaticModel"
       THEN [w EXCEPT !.static_models_[index_element.index] =
               [ (IF ModelInRange(model.model_id)
                  THEN (IF models_description[model.model_id + 1].ac = "Switch"
                        THEN [model EXCEPT !.animation_start_frame = 0,
                                           !.animation_state = "SingleFrame"]
                        ELSE model)
                  ELSE [model EXCEPT !.animation_start_frame = 0,
                                     !.animation_state = "Animation"])
                 EXCEPT !.model_id = id - 163 ]]
       ELSE IF index_element.type = "DynamicWall"
       THEN [w EXCEPT !.dynamic_walls_[index_element.index].texture_id = id]
       ELSE w

ExplodeCommand(w, command) ==
    LET x == command.args[1]
        y == command.args[2]
        index_element == map_index[x + y * c_map_size]
    IN IF x < c_map_size /\ y < c_map_size /\ index_element.type = "StaticModel"
       THEN DestroyModel(w, index_element.index)
       ELSE w

ImmediateCommand(w, command) ==
    CASE command.id = "Lock"    -> [w EXCEPT !.procedures_[command.args[1]].locked = TRUE]
      [] command.id = "Unlock"  -> [w EXCEPT !.procedures_[command.args[1]].locked = FALSE]
      [] command.id = "Change"  -> ChangeCommand(w, command)
      [] command.id = "Wind"    -> ProcessWind(w, command, TRUE)
      [] command.id = "Death"   -> ProcessDeathZone(w, command, TRUE)
      [] command.id = "Explode" -> ExplodeCommand(w, command)
      [] OTHER -> w

RECURSIVE ImmediateCommandsFrom(_, _, _)
ImmediateCommandsFrom(w, i, commands) ==
    IF i > Len(commands) THEN w
    ELSE ImmediateCommandsFrom(ImmediateCommand(w, commands[i]), i + 1, commands)

DoProcedureImmediateCommands(w, p) ==
    [ImmediateCommandsFrom(w, 1, map_data_.procedures[p].action_commands)
        EXCEPT !.immediate_runs[p] = Inc(@)]

DeactivationCommand(w, command) ==
    CASE command.id = "Wind"  -> ProcessWind(w, command, FALSE)
      [] command.id = "Death" -> ProcessDeathZone(w, command, FALSE)
      [] OTHER -> w

RECURSIVE DeactivationCommandsFrom(_, _, _)
DeactivationCommandsFrom(w, i, commands) ==
    IF i > Len(commands) THEN w
    ELSE DeactivationCommandsFrom(DeactivationCommand(w, commands[i]), i + 1, commands)

\* Variant: the Nonstop command is never recognised.
HasNonstop_Never(procedure) == FALSE

HasNonstop(procedure) ==
    \E i \in DOMAIN procedure.action_commands : procedure.action_commands[i].id = "Nonstop"

DoProcedureDeactivationCommands(w, procedure) ==
    IF HasNonstop(procedure) THEN w
    ELSE DeactivationCommandsFrom(w, 1, procedure.action_commands)

\* Variant: the stage of a procedure without speed grows like any other.
NewStage_Linear(procedure, dt) == dt * procedure.speed

\* new_stage of Map::Tick, for dt = current_time - last_state_change_time.
NewStage(procedure, dt) ==
    IF procedure.speed > 0 THEN dt * procedure.speed ELSE StageOne

MapEndCheck(procedure_state, procedure, dt) ==
    /\ procedure_state.movement_state # "None"
    /\ procedure.end_delay_s > 0
    /\ dt >= procedure.end_delay_s

\* Variant: the start delay has to be exceeded, not only reached.
StartWaitDone_Strict(procedure, dt) == dt > procedure.start_delay_s

StartWaitDone(procedure, dt) == dt >= procedure.start_delay_s

\* Variant: the back wait has to be met to the instant.
BackWaitDone_Exact(procedure, wait_time) ==
    procedure.back_wait_s > 0 /\ wait_time = procedure.back_wait_s

\* Variant: the back wait has to be exceeded, not only reached.
BackWaitDone_Strict(procedure, wait_time) ==
    procedure.back_wait_s > 0 /\ wait_time > procedure.back_wait_s

BackWaitDone(procedure, wait_time) ==
    procedure.back_wait_s > 0 /\ wait_time >= procedure.back_wait_s

StartMovement(w, p, t) ==
    SetMovement(
        DoProcedureImmediateCommands(
            ActivateProcedureSwitches(w, map_data_.procedures[p], FALSE, t), p),
        p, "Movement", 0, t)

\* Variant: the stage is left at 1 when the movement ends.
EndMovement_KeepStage(w, p, t) ==
    SetMovement(DoProcedureDeactivationCommands(w, map_data_.procedures[p]),
                p, "BackWait", StageOne, t)

EndMovement(w, p, t) ==
    SetMovement(DoProcedureDeactivationCommands(w, map_data_.procedures[p]),
                p, "BackWait", 0, t)

StartReverseMovement(w, p, t) ==
    SetMovement(ActivateProcedureSwitches(w, map_data_.procedures[p], TRUE, t),
                p, "ReverseMovement", 0, t)

\* One iteration of Tick's loop over the procedures (the switch on movement_state).
TickProcedure(w, p, t) ==
    LET procedure == map_data_.procedures[p]
        procedure_state == w.procedures_[p]
        dt == t - procedure_state.last_state_change_time
        new_stage == NewStage(procedure, dt)
        state == procedure_state.movement_state
    IN CASE state = "None" -> w
         [] state = "StartWait" ->
                IF StartWaitDone(procedure, dt) THEN StartMovement(w, p, t)
                ELSE [w EXCEPT !.procedures_[p].movement_stage = new_stage]
         [] state = "Movement" ->
                IF new_stage >= StageOne THEN EndMovement(w, p, t)
                ELSE [w EXCEPT !.procedures_[p].movement_stage = new_stage]
         [] state = "BackWait" ->
                IF BackWaitDone(procedure, dt) THEN StartReverseMovement(w, p, t)
                ELSE w
         [] state = "ReverseMovement" ->
                IF new_stage >= StageOne THEN SetMovement(w, p, "None", 0, t)
                ELSE [w EXCEPT !.procedures_[p].movement_stage = new_stage]

\* dt_s of ReturnProcedure: the part of the movement not yet done at time t.
\* Variant: the reverse movement always starts from its beginning.
ReturnElapsed_Zero(procedure_state, procedure, t) == 0

ReturnElapsed(procedure_state, procedure, t) ==
    IF procedure.speed > 0
    THEN Max((StageOne \div procedure.speed)
             - (t - procedure_state.last_state_change_time), 0)
    ELSE 0

\* Variant: the lock is not looked at.
ReturnProcedureState_IgnoreLock(procedure_state, procedure, t) ==
    CASE procedure_state.movement_state = "StartWait" ->
            [procedure_state EXCEPT !.movement_state = "None"]
      [] procedure_state.movement_state = "Movement" ->
            [procedure_state EXCEPT
                !.movement_state = "ReverseMovement",
                !.last_state_change_time =
                    t - ReturnElapsed(procedure_state, procedure, t)]
      [] procedure_state.movement_state = "BackWait" ->
            [procedure_state EXCEPT !.movement_state = "ReverseMovement",
                                    !.last_state_change_time = t]
      [] OTHER -> procedure_state

ReturnProcedureState(procedure_state, procedure, t) ==
    IF procedure_state.locked THEN procedure_state
    ELSE CASE procedure_state.movement_state \in {"None", "ReverseMovement"} -> procedure_state
           [] procedure_state.movement_state = "StartWait" ->
                [procedure_state EXCEPT !.movement_state = "None"]
           [] procedure_state.movement_state = "Movement" ->
                [procedure_state EXCEPT
                    !.movement_state = "ReverseMovement",
                    !.last_state_change_time =
                        t - ReturnElapsed(procedure_state, procedure, t)]
           [] procedure_state.movement_state = "BackWait" ->
                [procedure_state EXCEPT !.movement_state = "ReverseMovement",
                                        !.last_state_change_time = t]

\* absolute_action_stage of MoveMapObjects.
AbsoluteActionStage(procedure_state) ==
    CASE procedure_state.movement_state = "Movement" -> procedure_state.movement_stage
      [] procedure_state.movement_state = "BackWait" -> StageOne
      [] procedure_state.movement_state = "ReverseMovement" ->
            StageOne - procedure_state.movement_stage
      [] OTHER -> 0

\* The shift that one command gives its object at the stage of its procedure
\* (the levels hold no Rotate command; rotation is left out).
CommandShift(command, stage) ==
    LET dx == command.args[3] * g_commands_coords_scale
        dy == command.args[4] * g_commands_coords_scale
        half == StageOne \div 2
    IN  CASE command.id = "Move" ->
                [x |-> (dx * stage) \div StageOne, y |-> (dy * stage) \div StageOne, z |-> 0]
          [] command.id = "XMove" ->
                IF stage <= half
                THEN [x |-> (dx * stage) \div half, y |-> 0, z |-> 0]
                ELSE [x |-> dx, y |-> (dy * (stage - half)) \div half, z |-> 0]
          [] command.id = "YMove" ->
                IF stage <= half
                THEN [x |-> 0, y |-> (dy * stage) \div half, z |-> 0]
                ELSE [x |-> (dx * (stage - half)) \div half, y |-> dy, z |-> 0]
          [] command.id = "Up" ->
                [x |-> 0, y |-> 0,
                 z |-> (command.args[3] * g_commands_coords_scale * 4 * stage) \div StageOne]
          [] OTHER -> [x |-> 0, y |-> 0, z |-> 0]

\* The transformation that the commands of procedure p from command c on,
\* and of the procedures after p, accumulate on the object `element`.
RECURSIVE TransformationFrom(_, _, _, _)
TransformationFrom(w, element, p, c) ==
    IF p > Len(map_data_.procedures) THEN [x |-> 0, y |-> 0, z |-> 0]
    ELSE IF c > Len(map_data_.procedures[p].action_commands)
    THEN TransformationFrom(w, element, p + 1, 1)
    ELSE LET command == map_data_.procedures[p].action_commands[c]
             rest == TransformationFrom(w, element, p, c + 1)
             shift == CommandShift(command, AbsoluteActionStage(w.procedures_[p]))
         IN  IF /\ command.id \in {"Move", "XMove", "YMove", "Up"}
                /\ map_index[command.args[1] + command.args[2] * c_map_size] = element
             THEN [x |-> shift.x + rest.x, y |-> shift.y + rest.y, z |-> shift.z + rest.z]
             ELSE rest

\* Variant: the transformations are added to the geometry of the last Tick.

\* MoveMapObjects: every transformation is cleared, accumulated from the
\* procedures and applied to the base geometry of the level data.
MoveMapObjects(w) ==
    [w EXCEPT
        !.dynamic_walls_ = [d \in DOMAIN @ |->
            LET t == TransformationFrom(w, [type |-> "DynamicWall", index |-> d], 1, 1)
            IN  [@[d] EXCEPT
                    !.vert_pos = [j \in 1 .. 2 |->
                        [x |-> BaseVertPos(map_dynamic_walls[d])[j].x + t.x,
                         y |-> BaseVertPos(map_dynamic_walls[d])[j].y + t.y]],
                    !.z = t.z]],
        !.static_models_ = [m \in DOMAIN @ |->
            LET t == TransformationFrom(w, [type |-> "StaticModel", index |-> m], 1, 1)
            IN  [@[m] EXCEPT !.pos = [x |-> BaseModelPos(map_static_models[m]).x + t.x,
                                      y |-> BaseModelPos(map_static_models[m]).y + t.y,
                                      z |-> w.static_models_[m].baze_z + t.z],
                             !.angle = 0]]]

\* ------------------------------------------------------------- static models
TickStaticModel(model, t) ==
    LET animation_frame == t - model.animation_start_time
        in_range == model.model_id < Len(models)
        frame_count == models[model.model_id + 1].frame_count
    IN CASE model.animation_state = "Animation" ->
              [model EXCEPT !.current_animation_frame =
                  IF in_range THEN animation_frame % frame_count ELSE 0]
         [] model.animation_state = "SingleAnimation" ->
              IF ~in_range THEN [model EXCEPT !.current_animation_frame = 0]
              ELSE IF animation_frame >= frame_count - 1
              THEN [model EXCEPT !.animation_state = "SingleFrame",
                                 !.animation_start_frame = frame_count - 1]
              ELSE [model EXCEPT !.current_animation_frame = animation_frame]
         [] model.animation_state = "SingleReverseAnimation" ->
              IF ~in_range THEN [model EXCEPT !.current_animation_frame = 0]
              ELSE IF model.animation_start_frame - animation_frame <= 0
              THEN [model EXCEPT !.animation_state = "SingleFrame",
                                 !.animation_start_frame = 0]
              ELSE [model EXCEPT !.current_animation_frame =
                                     model.animation_start_frame - animation_frame]
         [] OTHER ->
              [model EXCEPT !.current_animation_frame = model.animation_start_frame]

\* ------------------------------------------------------------- rocket hits
\* What a rocket's nearest hit does to models and links (Tick, after ProcessShot).
ProcessRocketHit(w, hit, power, t) ==
    IF hit.object_type = "Model"
    THEN LET model == w.static_models_[hit.object_index]
             w1 == ProcessElementLinks(w, "StaticModel", hit.object_index, "Shoot", t)
             health == model.health - power
             w2 == [w1 EXCEPT !.static_models_[hit.object_index].health = health]
         IN IF ~ModelInRange(model.model_id) THEN w
            ELSE IF models_description[model.model_id + 1].blow_effect = 0 THEN w1
            ELSE IF health <= 0
            THEN ProcessElementLinks(DestroyModel(w2, hit.object_index),
                                     "StaticModel", hit.object_index, "Destroy", t)
            ELSE w2
    ELSE IF hit.object_type \in {"StaticWall", "DynamicWall"}
    THEN ProcessElementLinks(w, hit.object_type, hit.object_index, "Shoot", t)
    ELSE IF hit.object_type = "Monster"
    THEN [w EXCEPT !.hit_calls = Append(@, [monster |-> hit.object_index, power |-> power])]
    ELSE w

\* ------------------------------------------------------------- ProcessShot
\* A candidate is one object of the map with what the intersection test of
\* its category answered for the ray: whether it meets the ray and how far
\* from the start; `skipped` is the category's own exclusion (a wall texture
\* with gso[1], a model without radius, an empty or sky floor texture).
Candidate(type, index, distance, skipped) ==
    [ object_type |-> type, object_index |-> index,
      intersects |-> distance > 0, distance |-> distance, skipped |-> skipped ]

\* process_candidate_shot_pos: state is << result, nearest square distance >>.
ProcessCandidateShotPos(state, candidate) ==
    IF candidate.distance * candidate.distance < state.nearest
    THEN [ result |-> [ object_type |-> candidate.object_type,
                        object_index |-> candidate.object_index,
                        distance |-> candidate.distance ],
           nearest |-> candidate.distance * candidate.distance ]
    ELSE state

\* Variant: the shot's owner is tested like every other monster.
CandidateTested_NoSkip(candidate, skip_monster_id) ==
    candidate.intersects /\ ~candidate.skipped

CandidateTested(candidate, skip_monster_id) ==
    /\ candidate.intersects
    /\ ~candidate.skipped
    /\ ~(candidate.object_type = "Monster" /\ candidate.object_index = skip_monster_id)

RECURSIVE ProcessShotFrom(_, _, _, _)
ProcessShotFrom(state, i, candidates, skip_monster_id) ==
    IF i > Len(candidates) THEN state
    ELSE ProcessShotFrom(
             IF CandidateTested(candidates[i], skip_monster_id)
             THEN ProcessCandidateShotPos(state, candidates[i]) ELSE state,
             i + 1, candidates, skip_monster_id)

\* The candidates come in the order the code visits them: static walls and
\* models, dynamic walls, monsters, floor, ceiling.
ProcessShot(candidates, max_distance, skip_monster_id) ==
    ProcessShotFrom([result |-> NoShot, nearest |-> max_distance * max_distance],
                    1, candidates, skip_monster_id).result

\* ------------------------------------------------------------- operations
\* Times an operation may be called with: time never goes back.
Times == current_time .. Min(current_time + MaxDelta, MaxTime)

\* The nearest hits a rocket may register, and rocket powers.
RocketHits ==
    { [object_type |-> "None", object_index |-> 0],
      [object_type |-> "Floor", object_index |-> 0] }
    \cup { [object_type |-> "Model", object_index |-> m] : m \in DOMAIN map_static_models }
    \cup { [object_type |-> "DynamicWall", object_index |-> d] : d \in DOMAIN map_dynamic_walls }

RocketPowers == {6, 10}

history == << immediate_runs, active_since, end_calls, first_sent >>
world_vars == << procedures_, static_models_, dynamic_walls_, wind_field_, death_field_ >>

\* Tick( current_time, last_tick_delta ): entry.
TickBegin(t) ==
    /\ UNCHANGED << combat_vars, shot, shot_result, grenade, death_run, sound_vars, rest_vars >>
    /\ walk' = << >>
    /\ pc = "idle"
    /\ \A m \in DOMAIN static_models_ : static_models_[m].model_id <= MaxModelId
    /\ current_time' = t
    /\ pc' = "procedures"
    /\ tick_p' = 1
    /\ end_raised' = {}
    /\ callback_calls' = 0
    /\ text_messages' = << >>
    /\ UNCHANGED << map_data_, map_end_callback_, world_vars, history, map_end_triggered_,
                    absolute_action_stage, callback_saw_flag, moved_state >>

\* Tick: one iteration of the loop "Update state of procedures".
TickProcedureStep ==
    /\ UNCHANGED << combat_vars, shot_vars, rest_vars >>
    /\ pc = "procedures"
    /\ LET p == tick_p
           raised == MapEndCheck(procedures_[p], map_data_.procedures[p],
                                 current_time - procedures_[p].last_state_change_time)
       IN /\ map_end_triggered_' = (map_end_triggered_ \/ raised)
          /\ end_raised' = IF raised THEN end_raised \cup {p} ELSE end_raised
          /\ SetWorld(ClearHistory(TickProcedure(World, p, current_time), p))
          /\ tick_p' = IF p = Len(map_data_.procedures) THEN 1 ELSE p + 1
          /\ pc' = IF p = Len(map_data_.procedures) THEN "move_map_objects" ELSE "procedures"
    /\ UNCHANGED << map_data_, map_end_callback_, absolute_action_stage, current_time,
                    text_messages, callback_calls, callback_saw_flag, moved_state >>

\* Tick: MoveMapObjects().
\* Variant: the geometry stays as the Tick before left it.
TickMoveMapObjects_Stale ==
    /\ pc = "move_map_objects"
    /\ pc' = "static_models"
    /\ UNCHANGED << map_data_, map_end_callback_, world_vars, history, map_end_triggered_,
                    absolute_action_stage, current_time, tick_p, text_messages, end_raised,
                    callback_calls, callback_saw_flag, moved_state,
                    combat_vars, shot_vars, rest_vars >>

TickMoveMapObjects ==
    /\ UNCHANGED << combat_vars, shot_vars, rest_vars >>
    /\ pc = "move_map_objects"
    /\ absolute_action_stage' = [p \in Procs |-> AbsoluteActionStage(procedures_[p])]
    /\ moved_state' = [p \in Procs |-> procedures_[p].movement_state]
    /\ dynamic_walls_' = MoveMapObjects(World).dynamic_walls_
    /\ static_models_' = MoveMapObjects(World).static_models_
    /\ pc' = "static_models"
    /\ UNCHANGED << map_data_, map_end_callback_, procedures_, wind_field_, death_field_,
                    history, map_end_triggered_,
                    current_time, tick_p, text_messages, end_raised,
                    callback_calls, callback_saw_flag >>

\* Tick: "Process static models".
TickStaticModels ==
    /\ UNCHANGED << combat_vars, shot_vars, rest_vars >>
    /\ pc = "static_models"
    /\ static_models_' = [m \in DOMAIN static_models_ |->
                             TickStaticModel(static_models_[m], current_time)]
    /\ pc' = "rockets"
    /\ UNCHANGED << map_data_, map_end_callback_, procedures_, dynamic_walls_, wind_field_,
                    death_field_, history, map_end_triggered_, absolute_action_stage,
                    current_time, tick_p, text_messages, end_raised,
                    callback_calls, callback_saw_flag, moved_state >>

\* Tick: "Process shots", for the hit of one rocket.
TickRockets(hit, power) ==
    /\ UNCHANGED << combat_vars, shot_vars, rest_vars >>
    /\ pc = "rockets"
    /\ SetWorld(ProcessRocketHit(World, hit, power, current_time))
    /\ pc' = "map_end"
    /\ UNCHANGED << map_data_, map_end_callback_, map_end_triggered_, absolute_action_stage,
                    current_time, tick_p, text_messages, end_raised,
                    callback_calls, callback_saw_flag, moved_state >>

\* Tick: the report about the map end, and the return.
\* Variant: the callback runs before map_end_triggered_ is cleared.
TickMapEnd_CallbackFirst ==
    /\ UNCHANGED << combat_vars, shot_vars, rest_vars >>
    /\ pc = "map_end"
    /\ IF map_end_triggered_ /\ map_end_callback_
       THEN /\ callback_saw_flag' = map_end_triggered_
            /\ map_end_triggered_' = FALSE
            /\ callback_calls' = Inc(callback_calls)
            /\ UNCHANGED end_calls
       ELSE UNCHANGED << map_end_triggered_, callback_saw_flag, callback_calls, end_calls >>
    /\ pc' = "idle"
    /\ UNCHANGED << map_data_, map_end_callback_, world_vars, immediate_runs, active_since,
                    first_sent,
                    absolute_action_stage, current_time, tick_p, text_messages,
                    end_raised, moved_state >>

TickMapEnd ==
    /\ UNCHANGED << combat_vars, shot_vars, rest_vars >>
    /\ pc = "map_end"
    /\ IF map_end_triggered_ /\ map_end_callback_
       THEN /\ map_end_triggered_' = FALSE
            /\ callback_saw_flag' = map_end_triggered_'
            /\ callback_calls' = Inc(callback_calls)
            /\ end_calls' = [p \in Procs |->
                                IF p \in end_raised /\ procedures_[p].movement_state # "None"
                                THEN Inc(end_calls[p]) ELSE end_calls[p]]
       ELSE UNCHANGED << map_end_triggered_, callback_saw_flag, callback_calls, end_calls >>
    /\ pc' = "idle"
    /\ UNCHANGED << map_data_, map_end_callback_, world_vars, immediate_runs, active_since,
                    first_sent,
                    absolute_action_stage, current_time, tick_p, text_messages,
                    end_raised, moved_state >>

\* Variant: the keys are not asked for.
HaveNecessaryKeys_Always(procedure, keys) == TRUE

HaveNecessaryKeys(procedure, keys) ==
    /\ ~procedure.red_key_required \/ "red" \in keys
    /\ ~procedure.green_key_required \/ "green" \in keys
    /\ ~procedure.blue_key_required \/ "blue" \in keys

\* Variant: the first message is sent on every call.
FirstMessageDue_Always(procedure, procedure_state) == procedure.first_message_number # 0

FirstMessageDue(procedure, procedure_state) ==
    procedure.first_message_number # 0 /\ ~procedure_state.first_message_printed

\* Variant: the lock message is sent for a locked procedure only.
LockMessageDue_LockedOnly(procedure, procedure_state, have_necessary_keys) ==
    procedure.lock_message_number # 0 /\ procedure_state.locked

\* Variant: the lock message is sent for a missing key only.
LockMessageDue_KeysOnly(procedure, procedure_state, have_necessary_keys) ==
    procedure.lock_message_number # 0 /\ ~have_necessary_keys

LockMessageDue(procedure, procedure_state, have_necessary_keys) ==
    /\ procedure.lock_message_number # 0
    /\ (procedure_state.locked \/ ~have_necessary_keys)

\* The keys a player may hold.
KeySets == {{}, {"red"}, KeyColors}

\* TryActivateProcedure for a player whose gate answers `gate` and who holds `keys`.
TryActivateProcedure(p, t, gate, keys) ==
    /\ UNCHANGED << combat_vars, shot_vars, rest_vars >>
    /\ pc = "idle"
    /\ current_time' = t
    /\ LET procedure == map_data_.procedures[p]
           procedure_state == procedures_[p]
           have_necessary_keys == HaveNecessaryKeys(procedure, keys)
           activated == /\ have_necessary_keys
                        /\ ~procedure_state.locked
                        /\ procedure_state.movement_state = "None"
           w1 == IF activated THEN ActivateProcedure(World, p, t) ELSE World
           first == FirstMessageDue(procedure, procedure_state)
           lock == LockMessageDue(procedure, procedure_state, have_necessary_keys)
           on == procedure.on_message_number # 0
       IN IF ~gate
          THEN /\ UNCHANGED << world_vars, history >>
               /\ text_messages' = << >>
          ELSE /\ SetWorld([w1 EXCEPT !.procedures_[p].first_message_printed = (@ \/ first),
                                      !.first_sent[p] = IF first THEN Inc(@) ELSE @])
               /\ text_messages' =
                      (IF first THEN << procedure.first_message_number >> ELSE << >>)
                      \o (IF lock THEN << procedure.lock_message_number >> ELSE << >>)
                      \o (IF on THEN << procedure.on_message_number >> ELSE << >>)
    /\ UNCHANGED << map_data_, map_end_callback_, map_end_triggered_, absolute_action_stage,
                    pc, tick_p, end_raised, callback_calls, callback_saw_flag, moved_state >>

ReturnProcedure(p, t) ==
    /\ UNCHANGED << combat_vars, shot_vars, rest_vars >>
    /\ pc = "idle"
    /\ current_time' = t
    /\ SetWorld(ClearHistory(
           [World EXCEPT !.procedures_[p] =
               ReturnProcedureState(@, map_data_.procedures[p], t)], p))
    /\ text_messages' = << >>
    /\ UNCHANGED << map_data_, map_end_callback_, map_end_triggered_, absolute_action_stage,
                    pc, tick_p, end_raised, callback_calls, callback_saw_flag, moved_state >>

Next ==
    \/ \E t \in Times : TickBegin(t)
    \/ TickProcedureStep
    \/ TickMoveMapObjects
    \/ TickStaticModels
    \/ \E hit \in RocketHits, power \in RocketPowers : TickRockets(hit, power)
    \/ TickMapEnd
    \/ \E p \in Procs, t \in Times, gate \in BOOLEAN, keys \in KeySets :
           TryActivateProcedure(p, t, gate, keys)
    \/ \E p \in Procs, t \in Times : ReturnProcedure(p, t)

Spec == Init /\ [][Next]_vars

\* ------------------------------------------------------------- repeated Ticks
\* Ticks follow each other for as long as the map lives, each later than the
\* one before by up to MaxDelta + 1, until the time LifeEnd; players step on
\* triggers in between, and no rocket hits anything.
LifeLevels == Levels \cup {Level4}
LifeEnd == 5 * MaxTime
LifeTimes == (current_time + 1) .. Min(current_time + MaxDelta + 1, LifeEnd)

InitLife ==
    /\ InitMap(LifeLevels)
    /\ InitCombat
    /\ NoMonsters
    /\ shot = [candidates |-> << >>, max_distance |-> 0, skip_monster_id |-> 0]
    /\ shot_result = NoShot

LifeTick ==
    \/ \E t \in LifeTimes : TickBegin(t)
    \/ TickProcedureStep
    \/ TickMoveMapObjects
    \/ TickStaticModels
    \/ TickRockets([object_type |-> "None", object_index |-> 0], 6)
    \/ TickMapEnd

NextLife ==
    \/ LifeTick
    \/ \E p \in Procs : TryActivateProcedure(p, current_time, TRUE, KeyColors)

\* The main loop calls Tick again and again.
SpecLife == InitLife /\ [][NextLife]_vars /\ WF_vars(LifeTick)

\* ------------------------------------------------------------- a switch
\* Repeated Ticks, as in SpecLife, until the time SwitchEnd on the levels with
\* a door and its switch.
SwitchEnd == 2 * MaxTime + 2
SwitchTimes == (current_time + 1) .. Min(current_time + MaxDelta + 1, SwitchEnd)

InitSwitch ==
    /\ InitMap({Level1, Level7})
    /\ InitCombat
    /\ NoMonsters
    /\ shot = [candidates |-> << >>, max_distance |-> 0, skip_monster_id |-> 0]
    /\ shot_result = NoShot

SwitchTick ==
    \/ \E t \in SwitchTimes : TickBegin(t)
    \/ TickProcedureStep
    \/ TickMoveMapObjects
    \/ TickStaticModels
    \/ TickRockets([object_type |-> "None", object_index |-> 0], 6)
    \/ TickMapEnd

NextSwitch ==
    \/ SwitchTick
    \/ \E p \in Procs : TryActivateProcedure(p, current_time, TRUE, KeyColors)

SpecSwitch == InitSwitch /\ [][NextSwitch]_vars /\ WF_vars(SwitchTick)

\* ------------------------------------------------------------- a locked door
\* The operations of Spec on the level with the locking procedure.
InitLock ==
    /\ InitMap({Level6})
    /\ InitCombat
    /\ NoMonsters
    /\ shot = [candidates |-> << >>, max_distance |-> 0, skip_monster_id |-> 0]
    /\ shot_result = NoShot

SpecLock == InitLock /\ [][Next]_vars

\* ------------------------------------------------------------- rockets and mines
HasInfiniteSpeed(rocket) == rockets_description[rocket.rocket_type_id + 1].infinite_speed

\* Variant: the last element is dropped without being moved to r first.
RemoveAt_PopBack(seq, r) == SubSeq(seq, 1, Len(seq) - 1)

\* rockets_[r]= rockets_.back(); rockets_.pop_back(), for the 1-based index r.
RemoveAt(seq, r) ==
    IF r = Len(seq) THEN SubSeq(seq, 1, Len(seq) - 1)
    ELSE [SubSeq(seq, 1, Len(seq) - 1) EXCEPT ![r] = seq[Len(seq)]]

\* What a rocket's segment of this Tick meets: the intersections on its ray
\* and the segment's length (which a shot of infinite speed does not use).
Scene(candidates, max_distance) == [candidates |-> candidates, max_distance |-> max_distance]

TickScenes ==
    { Scene(<< >>, 3),
      Scene(<< Candidate("Monster", 1, 1, FALSE) >>, 3),
      Scene(<< Candidate("Monster", 1, 1, FALSE), Candidate("Monster", 2, 2, FALSE) >>, 3),
      Scene(<< Candidate("Monster", 2, 2, FALSE) >>, 2),
      Scene(<< Candidate("Model", 2, 1, FALSE), Candidate("Monster", 2, 2, FALSE) >>, 3),
      Scene(<< Candidate("Floor", 0, 1, FALSE) >>, 3) }

\* Variant: a shot of infinite speed reaches no farther than one segment.
RocketHitResult_Segment(rocket, scene) ==
    ProcessShot(scene.candidates, scene.max_distance, rocket.owner_id)

\* hit_result of one rocket in Tick.
RocketHitResult(rocket, scene) ==
    LET found == ProcessShot(scene.candidates,
                             IF HasInfiniteSpeed(rocket) THEN max_float
                             ELSE scene.max_distance,
                             rocket.owner_id)
    IN IF /\ ~HasInfiniteSpeed(rocket)
          /\ rockets_description[rocket.rocket_type_id + 1].reflect
          /\ found.object_type = "Floor"
          /\ found.object_index = 0
       THEN [found EXCEPT !.object_type = "None"]
       ELSE found

\* "Emit smoke trail": one sprite for every whole number the track length passes;
\* the lengths of the segments are whole, so these are c_particels_per_unit a unit.
EmitSmokeTrail(w, rocket, scene) ==
    LET sprite_effect_id == rockets_description[rocket.rocket_type_id + 1].smoke_trail_effect_id
    IN IF HasInfiniteSpeed(rocket) \/ sprite_effect_id = 0 THEN w
       ELSE [w EXCEPT !.sprite_effects_ =
                @ \o [i \in 1 .. (c_particels_per_unit * scene.max_distance) |->
                         sprite_effect_id]]

GenParticleEffectForRocketHit(w, rocket_type_id) ==
    LET description == rockets_description[rocket_type_id + 1]
        effects == IF description.model_file_name = ""
                   THEN IF description.blow_effect = 1 THEN << "Bullet" >> ELSE << >>
                   ELSE (IF description.blow_effect \in {1, 3, 4}
                         THEN << "Sparkles" >> ELSE << >>)
                        \o (IF description.blow_effect = 2
                            THEN << "Explosion" >> ELSE << >>)
    IN PlayMapEventSound([w EXCEPT !.particles_effects_messages_ = @ \o effects],
                         << "FirstRocketHit", rocket_type_id >>)

\* "Gen hit effect".
GenHitEffect(w, rocket, hit_result) ==
    IF hit_result.object_type \in {"StaticWall", "DynamicWall", "Floor", "Model"}
    THEN GenParticleEffectForRocketHit(w, rocket.rocket_type_id)
    ELSE IF hit_result.object_type = "Monster"
    THEN LET w1 == [w EXCEPT !.particles_effects_messages_ = Append(@, "Blood")]
         IN IF /\ rockets_description[rocket.rocket_type_id + 1].blow_effect = 2
               /\ ~HasInfiniteSpeed(rocket)
            THEN GenParticleEffectForRocketHit(w1, rocket.rocket_type_id)
            ELSE w1
    ELSE w

\* Variant: a rocket is removed as soon as it is 16 seconds old.
RemoveRocket_AtLimit(rocket, hit_result, t) ==
    \/ hit_result.object_type # "None"
    \/ t - rocket.start_time >= max_rocket_flight_s
    \/ HasInfiniteSpeed(rocket)

\* Variant: a shot of infinite speed is removed only when it hits.
RemoveRocket_BulletsFly(rocket, hit_result, t) ==
    \/ hit_result.object_type # "None"
    \/ t - rocket.start_time > max_rocket_flight_s

\* "Try remove rocket".
RemoveRocket(rocket, hit_result, t) ==
    \/ hit_result.object_type # "None"
    \/ t - rocket.start_time > max_rocket_flight_s
    \/ HasInfiniteSpeed(rocket)

\* Tick's loop "Process shots" from index r on; scenes gives every rocket id its scene.
RECURSIVE RocketsLoop(_, _, _, _)
RocketsLoop(w, r, scenes, t) ==
    IF r > Len(w.rockets_) THEN w
    ELSE LET rocket == w.rockets_[r]
             hit_result == RocketHitResult(rocket, scenes[rocket.rocket_id])
             w0 == GenHitEffect(
                       EmitSmokeTrail([w EXCEPT !.loop_visits = Append(@, rocket.rocket_id)],
                                      rocket, scenes[rocket.rocket_id]),
                       rocket, hit_result)
             w1 == ProcessRocketHit(w0, hit_result,
                                    rockets_description[rocket.rocket_type_id + 1].power, t)
         IN IF RemoveRocket(rocket, hit_result, t)
            THEN RocketsLoop(
                     [w1 EXCEPT !.rockets_death_messages_ =
                                    IF HasInfiniteSpeed(rocket) THEN @
                                    ELSE Append(@, rocket.rocket_id),
                                !.rockets_ = RemoveAt(@, r)],
                     r, scenes, t)
            ELSE RocketsLoop(w1, r + 1, scenes, t)

\* Variant: a mine is removed as soon as it is 30 seconds old.
MineNeedKill_AtLimit(mine, near, t) ==
    \/ t - mine.planting_time >= max_mine_age_s
    \/ (t - mine.planting_time >= mines_preparation_time_s /\ near)

\* need_kill of one mine in Tick; near: a monster stands within the
\* activation distance.
MineNeedKill(mine, near, t) ==
    \/ t - mine.planting_time > max_mine_age_s
    \/ (t - mine.planting_time >= mines_preparation_time_s /\ near)

MineActivated(mine, near, t) ==
    /\ ~(t - mine.planting_time > max_mine_age_s)
    /\ t - mine.planting_time >= mines_preparation_time_s
    /\ near

\* Variant: the mine hits the monsters near it.
ActivateMine_HitMonsters(w, mine) ==
    PlayMapEventSound([w EXCEPT !.particles_effects_messages_ = Append(@, "Explosion"),
                                !.hit_calls = Append(@, [mine |-> mine.id])],
                      << "", 40 >>)

\* What an activated mine does ("TODO  hit mosnters here").
ActivateMine(w, mine) ==
    PlayMapEventSound([w EXCEPT !.particles_effects_messages_ = Append(@, "Explosion")],
                      << "", 40 >>)

\* Tick's loop "Process mines" from index m on, over
\* [mines_, dynamic_items_death_messages_, particles_effects_messages_,
\*  map_events_sounds_messages_, hit_calls].
RECURSIVE MinesLoop(_, _, _, _)
MinesLoop(w, m, near, t) ==
    IF m > Len(w.mines_) THEN w
    ELSE LET mine == w.mines_[m]
             w0 == [w EXCEPT !.loop_visits = Append(@, mine.id)]
             w1 == IF MineActivated(mine, near[mine.id], t)
                   THEN ActivateMine(w0, mine)
                   ELSE w0
         IN IF MineNeedKill(mine, near[mine.id], t)
            THEN MinesLoop(
                     [w1 EXCEPT !.dynamic_items_death_messages_ = Append(@, mine.id),
                                !.mines_ = RemoveAt(@, m)],
                     m, near, t)
            ELSE MinesLoop(w1, m + 1, near, t)

CombatDeltas == {15, 16}
CombatTimes == { current_time + d : d \in CombatDeltas } \cap (0 .. MaxCombatTime)
RocketIds == { rockets_[r].rocket_id : r \in DOMAIN rockets_ }
MineIds == { mines_[m].id : m \in DOMAIN mines_ }

Shoot(owner_id, rocket_type_id, t) ==
    /\ pc = "idle"
    /\ next_rocket_id_ <= MaxShots
    /\ current_time' = t
    /\ LET rocket == [ rocket_id |-> next_rocket_id_, owner_id |-> owner_id,
                       rocket_type_id |-> rocket_type_id, start_time |-> t ]
       IN /\ rockets_' = Append(rockets_, rocket)
          /\ rockets_birth_messages_' =
                 IF ~HasInfiniteSpeed(rocket)
                 THEN Append(rockets_birth_messages_, rocket.rocket_id)
                 ELSE rockets_birth_messages_
    /\ next_rocket_id_' = next_rocket_id_ + 1
    /\ UNCHANGED << map_data_, map_end_callback_, world_vars, history, map_end_triggered_,
                    absolute_action_stage, pc, tick_p, text_messages,
                    end_raised, callback_calls, callback_saw_flag, moved_state,
                    mines_, rockets_death_messages_, dynamic_items_birth_messages_,
                    dynamic_items_death_messages_, particles_effects_messages_,
                    hit_calls, destroy_calls, scenes_met, loop_visits, shot_vars, rest_vars >>

PlantMine(t) ==
    /\ pc = "idle"
    /\ next_rocket_id_ <= MaxShots
    /\ current_time' = t
    /\ mines_' = Append(mines_, [id |-> next_rocket_id_, planting_time |-> t])
    /\ next_rocket_id_' = next_rocket_id_ + 1
    /\ dynamic_items_birth_messages_' = Append(dynamic_items_birth_messages_, next_rocket_id_)
    /\ map_events_sounds_messages_' = Append(map_events_sounds_messages_, << "MineOn", 0 >>)
    /\ UNCHANGED << map_data_, map_end_callback_, world_vars, history, map_end_triggered_,
                    absolute_action_stage, pc, tick_p, text_messages,
                    end_raised, callback_calls, callback_saw_flag, moved_state,
                    rockets_, rockets_birth_messages_, rockets_death_messages_,
                    dynamic_items_death_messages_, particles_effects_messages_,
                    hit_calls, destroy_calls, scenes_met, loop_visits, shot_vars,
                    other_vars, sprite_effects_ >>

\* Tick: the loop "Process shots" over the live rockets.
TickRocketsLoop(scenes) ==
    /\ pc = "rockets"
    /\ LET w == RocketsLoop([World EXCEPT !.hit_calls = << >>, !.destroy_calls = << >>,
                                          !.loop_visits = << >>],
                            1, scenes, current_time)
       IN /\ SetWorld(w)
          /\ rockets_' = w.rockets_
          /\ rockets_death_messages_' = w.rockets_death_messages_
          /\ particles_effects_messages_' = w.particles_effects_messages_
          /\ sprite_effects_' = w.sprite_effects_
          /\ map_events_sounds_messages_' = w.map_events_sounds_messages_
          /\ hit_calls' = w.hit_calls
          /\ destroy_calls' = w.destroy_calls
          /\ loop_visits' = w.loop_visits
    /\ scenes_met' = scenes
    /\ pc' = "mines"
    /\ UNCHANGED << map_data_, map_end_callback_, map_end_triggered_, absolute_action_stage,
                    current_time, tick_p, text_messages, end_raised,
                    callback_calls, callback_saw_flag, moved_state,
                    next_rocket_id_, mines_, rockets_birth_messages_,
                    dynamic_items_birth_messages_, dynamic_items_death_messages_,
                    shot_vars, other_vars >>

\* Tick: the loop "Process mines".
TickMines(near) ==
    /\ pc = "mines"
    /\ LET w == MinesLoop([ mines_ |-> mines_,
                            dynamic_items_death_messages_ |-> dynamic_items_death_messages_,
                            particles_effects_messages_ |-> particles_effects_messages_,
                            map_events_sounds_messages_ |-> map_events_sounds_messages_,
                            hit_calls |-> << >>, loop_visits |-> << >> ],
                          1, near, current_time)
       IN /\ mines_' = w.mines_
          /\ loop_visits' = w.loop_visits
          /\ dynamic_items_death_messages_' = w.dynamic_items_death_messages_
          /\ particles_effects_messages_' = w.particles_effects_messages_
          /\ map_events_sounds_messages_' = w.map_events_sounds_messages_
          /\ hit_calls' = w.hit_calls
    /\ pc' = "monsters"
    /\ UNCHANGED << map_data_, map_end_callback_, world_vars, history, map_end_triggered_,
                    absolute_action_stage, current_time, tick_p, text_messages,
                    end_raised, callback_calls, callback_saw_flag, moved_state,
                    rockets_, next_rocket_id_, rockets_birth_messages_,
                    rockets_death_messages_, dynamic_items_birth_messages_,
                    shot_vars, other_vars, sprite_effects_ >>
    /\ destroy_calls' = << >>
    /\ scenes_met' = << >>

\* ------------------------------------------------------------- players
\* ~0u, cut down to the largest integer TLC has; no difficulty_flags comes near.
max_unsigned == 2147483647

\* SpawnPlayer's loop over the level's monster list, from entry i on: the
\* index of spawn_with_min_number, 0 for nullptr.
RECURSIVE SpawnWithMinNumberFrom(_, _, _, _)
SpawnWithMinNumberFrom(list, i, min_spawn_number, spawn_with_min_number) ==
    IF i > Len(list) THEN spawn_with_min_number
    ELSE IF list[i].difficulty_flags < min_spawn_number
    THEN SpawnWithMinNumberFrom(list, i + 1, list[i].difficulty_flags, i)
    ELSE SpawnWithMinNumberFrom(list, i + 1, min_spawn_number, spawn_with_min_number)

\* What no operation on the containers of monsters and players touches.
map_vars == << map_data_, map_end_callback_, world_vars, history, map_end_triggered_,
               absolute_action_stage, current_time, pc, tick_p, text_messages,
               end_raised, callback_calls, callback_saw_flag, moved_state >>

map_vars_but_pc == << map_data_, map_end_callback_, world_vars, history,
                      map_end_triggered_, absolute_action_stage, current_time, tick_p,
                      text_messages, end_raised, callback_calls, callback_saw_flag,
                      moved_state >>

SpawnPlayer(player) ==
    /\ pc = "idle"
    /\ Cardinality(DOMAIN players_) < MaxPlayers
    /\ LET spawn == SpawnWithMinNumberFrom(map_monsters, 1, max_unsigned, 0)
           next == GetNextMonsterId(next_monster_id_)
           placed ==
               IF spawn # 0
               THEN [ entities[player] EXCEPT
                        !.pos = Pos(map_monsters[spawn].pos.x, map_monsters[spawn].pos.y,
                                    GetFloorLevel(map_monsters[spawn].pos, player_radius)),
                        !.angle = map_monsters[spawn].angle ]
               ELSE [ entities[player] EXCEPT !.pos = Pos(0, 0, 4 * PosScale) ]
       IN  /\ entities' = [entities EXCEPT
                              ![player] = [placed EXCEPT !.activated_procedure = 0]]
           /\ next_monster_id_' = next.next_monster_id_
           /\ players_' = players_ @@ (next.id :> player)
           /\ monsters_' = monsters_ @@ (next.id :> player)
           /\ spawn_ids' = Append(spawn_ids, next.id)
    /\ UNCHANGED << map_vars, combat_vars, shot_vars, map_monsters, pass_vars, event_vars >>

\* ------------------------------------------------------------- monsters
\* static_cast<int> of a / b.
Trunc(a, b) == IF a >= 0 THEN a \div b ELSE -((-a) \div b)

Abs(a) == IF a >= 0 THEN a ELSE -a

\* The whole part of the square root of n, found between lo and hi.
RECURSIVE SqrtBetween(_, _, _)
SqrtBetween(n, lo, hi) ==
    IF lo >= hi THEN lo
    ELSE LET mid == (lo + hi + 1) \div 2
         IN  IF mid * mid <= n THEN SqrtBetween(n, mid, hi) ELSE SqrtBetween(n, lo, mid - 1)

\* m_Vec2::Length; exact for a vector along an axis.
Length(v) == SqrtBetween(v.x * v.x + v.y * v.y, 0, 46340)

\* "Process wind for monster": the position after the wind of the four cells
\* nearest to the monster has acted for last_tick_delta.
WindMoved(pos, wind, last_tick_delta) ==
    LET half == PosScale \div 2
        wind_x == Trunc(pos.x - half, PosScale)
        wind_y == Trunc(pos.y - half, PosScale)
        dx == pos.x - half - wind_x * PosScale
        dy == pos.y - half - wind_y * PosScale
        wind_fetch(x, y, k) == wind[x + y * c_map_size][k]
        wind_vec(k) ==
            wind_fetch(wind_x, wind_y, k) * (PosScale - dx) * (PosScale - dy)
            + wind_fetch(wind_x, wind_y + 1, k) * (PosScale - dx) * dy
            + wind_fetch(wind_x + 1, wind_y, k) * dx * (PosScale - dy)
            + wind_fetch(wind_x + 1, wind_y + 1, k) * dx * dy
    IN  IF /\ wind_x >= 0 /\ wind_x < c_map_size - 1
           /\ wind_y >= 0 /\ wind_y < c_map_size - 1
           /\ (wind_vec(1) # 0 \/ wind_vec(2) # 0)
        THEN [pos EXCEPT !.x = @ + Trunc(last_tick_delta * wind_vec(1), 2 * PosScale),
                         !.y = @ + Trunc(last_tick_delta * wind_vec(2), 2 * PosScale)]
        ELSE pos

\* Variant: the death ticks of a Tick are counted from its length alone.
DeathTicks_OfDelta(t, last_tick_delta, units) ==
    (death_ticks_per_second * last_tick_delta) \div units

\* death_ticks of Tick( current_time, last_tick_delta ), for times counted in
\* 1 / units of a second.
DeathTicks(t, last_tick_delta, units) ==
    (death_ticks_per_second * t) \div units
    - (death_ticks_per_second * (t - last_tick_delta)) \div units

\* "Process death for monster": the damage of the Hit, 0 for no Hit.
DeathZoneHit(pos, death, death_ticks) ==
    LET monster_x == Trunc(pos.x, PosScale)
        monster_y == Trunc(pos.y, PosScale)
        cell == death[monster_x + monster_y * c_map_size]
    IN  IF /\ monster_x >= 0 /\ monster_x < c_map_size
           /\ monster_y >= 0 /\ monster_y < c_map_size
           /\ cell.damage > 0 /\ death_ticks > 0
           /\ ~(pos.z * 64 > cell.z_top * PosScale
                \/ (pos.z + player_height) * 64 < cell.z_bottom * PosScale)
        THEN cell.damage * death_ticks
        ELSE 0

\* The same for a Tick of last_tick_delta whole seconds, whose death ticks
\* do not depend on its time.
DeathZoneDamage(pos, death, last_tick_delta) ==
    DeathZoneHit(pos, death, DeathTicks(last_tick_delta, last_tick_delta, 1))

\* "Process monsters", from the i-th monster of the order on: monster->Tick
\* takes the monster to moves[id] (the levels have no teleports), then wind
\* and the death zones act on it.
RECURSIVE MonstersLoop(_, _, _, _, _)
MonstersLoop(w, order, i, moves, last_tick_delta) ==
    IF i > Len(order) THEN w
    ELSE LET id == order[i]
             object == monsters_[id]
             pos == WindMoved(moves[id], w.wind_field_, last_tick_delta)
             damage == DeathZoneDamage(pos, w.death_field_, last_tick_delta)
         IN  MonstersLoop(
                 [w EXCEPT !.entities[object].pos = pos,
                           !.hit_calls = IF damage > 0
                                         THEN Append(@, [monster |-> id, power |-> damage])
                                         ELSE @],
                 order, i + 1, moves, last_tick_delta)

\* What a read of walls_textures gives: the entry, or for an id past the
\* end of the table whatever lies there (`garbage`).
WallTexture(texture_id, garbage) ==
    IF texture_id >= 0 /\ texture_id < Len(walls_textures)
    THEN walls_textures[texture_id + 1] ELSE garbage

\* CollideCircleWithLineSegment for a segment along the x axis: a circle that
\* overlaps the segment is pushed out along the segment's normal.
CollideCircleWithLineSegment(v0, v1, pos, radius) ==
    IF /\ v0.y = v1.y
       /\ pos.x >= Min(v0.x, v1.x) /\ pos.x <= Max(v0.x, v1.x)
       /\ Abs(pos.y - v0.y) < radius
    THEN [hit |-> TRUE,
          new_pos |-> [x |-> pos.x,
                       y |-> IF pos.y >= v0.y THEN v0.y + radius ELSE v0.y - radius]]
    ELSE [hit |-> FALSE, new_pos |-> pos]

\* CollideWithMap against the static model m: the position and z after it.
CollideWithModel(w, c, m, height, radius) ==
    LET model == w.static_models_[m]
        description == models_description[model.model_id + 1]
        geometry == models[model.model_id + 1]
        z_bottom == c.in_z
        z_top == c.in_z + height
        model_z_min == geometry.z_min + model.pos.z
        model_z_max == geometry.z_max + model.pos.z
        min_distance == radius + description.radius
        vec_to_pos == [x |-> c.pos.x - model.pos.x, y |-> c.pos.y - model.pos.y]
    IN  IF ~ModelInRange(model.model_id) THEN c
        ELSE IF description.radius <= 0 THEN c
        ELSE IF z_top < model_z_min \/ z_bottom > model_z_max THEN c
        ELSE IF SquareDistance(c.pos, model.pos) > min_distance * min_distance THEN c
        ELSE IF geometry.z_max - z_bottom <= player_z_pull_distance
        THEN [c EXCEPT !.new_z = Max(@, model_z_max), !.on_floor = TRUE]
        ELSE IF z_top - geometry.z_min <= player_z_pull_distance
        THEN [c EXCEPT !.new_z = Min(@, model_z_min - height)]
        ELSE [c EXCEPT !.pos = [x |-> model.pos.x
                                       + (vec_to_pos.x * min_distance) \div Length(vec_to_pos),
                                y |-> model.pos.y
                                       + (vec_to_pos.y * min_distance) \div Length(vec_to_pos)]]

\* CollideWithMap against the dynamic wall d.
CollideWithDynamicWall(w, c, d, height, radius, garbage) ==
    LET wall == w.dynamic_walls_[d]
        collided == CollideCircleWithLineSegment(wall.vert_pos[1], wall.vert_pos[2],
                                                 c.pos, radius)
    IN  IF wall.vert_pos[1] = wall.vert_pos[2] THEN c
        ELSE IF WallTexture(wall.texture_id, garbage).gso[1] THEN c
        ELSE IF c.in_z + height < wall.z \/ c.in_z > wall.z + walls_height THEN c
        ELSE IF collided.hit THEN [c EXCEPT !.pos = collided.new_pos]
        ELSE c

RECURSIVE CollideWithModelsFrom(_, _, _, _, _)
CollideWithModelsFrom(w, c, m, height, radius) ==
    IF m > Len(w.static_models_) THEN c
    ELSE CollideWithModelsFrom(w, CollideWithModel(w, c, m, height, radius), m + 1,
                               height, radius)

RECURSIVE CollideWithDynamicWallsFrom(_, _, _, _, _, _)
CollideWithDynamicWallsFrom(w, c, d, height, radius, garbage) ==
    IF d > Len(w.dynamic_walls_) THEN c
    ELSE CollideWithDynamicWallsFrom(
             w, CollideWithDynamicWall(w, c, d, height, radius, garbage), d + 1,
             height, radius, garbage)

\* Variant: no clamp to the ceiling.
CollideWithMap_NoCeiling(w, in_pos, height, radius, garbage) ==
    LET start == [pos |-> [x |-> in_pos.x, y |-> in_pos.y], in_z |-> in_pos.z,
                  new_z |-> in_pos.z, on_floor |-> FALSE]
        c == CollideWithDynamicWallsFrom(
                 w, CollideWithModelsFrom(w, start, 1, height, radius), 1,
                 height, radius, garbage)
    IN  IF c.new_z <= 0
        THEN [pos |-> Pos(c.pos.x, c.pos.y, 0), on_floor |-> TRUE]
        ELSE [pos |-> Pos(c.pos.x, c.pos.y, c.new_z), on_floor |-> c.on_floor]

\* CollideWithMap( in_pos, height, radius, out_on_floor ): the new position
\* and out_on_floor.
CollideWithMap(w, in_pos, height, radius, garbage) ==
    LET start == [pos |-> [x |-> in_pos.x, y |-> in_pos.y], in_z |-> in_pos.z,
                  new_z |-> in_pos.z, on_floor |-> FALSE]
        c == CollideWithDynamicWallsFrom(
                 w, CollideWithModelsFrom(w, start, 1, height, radius), 1,
                 height, radius, garbage)
    IN  IF c.new_z <= 0
        THEN [pos |-> Pos(c.pos.x, c.pos.y, 0), on_floor |-> TRUE]
        ELSE IF c.new_z + height > walls_height
        THEN [pos |-> Pos(c.pos.x, c.pos.y, walls_height - height), on_floor |-> c.on_floor]
        ELSE [pos |-> Pos(c.pos.x, c.pos.y, c.new_z), on_floor |-> c.on_floor]

\* "Collide monsters with map", from the i-th monster of the order on; a
\* noclipping player is passed over.
RECURSIVE CollideWithMapLoop(_, _, _, _)
CollideWithMapLoop(w, order, i, garbage) ==
    IF i > Len(order) THEN w
    ELSE LET object == monsters_[order[i]]
             monster == w.entities[object]
             is_player == monster.monster_id = 0
             radius == IF is_player THEN player_radius
                       ELSE monsters_description[monster.monster_id + 1].w_radius
             collided == CollideWithMap(w, monster.pos, player_height, radius, garbage)
         IN  IF is_player /\ monster.noclip
             THEN CollideWithMapLoop(w, order, i + 1, garbage)
             ELSE CollideWithMapLoop(
                      [w EXCEPT !.entities[object].pos = collided.pos,
                                !.entities[object].on_floor = collided.on_floor],
                      order, i + 1, garbage)

\* Variant: the monster of a pair of a player and a monster gives way.
FirstMonsterK_MonsterGivesWay(first, second) ==
    IF first.monster_id = 0 /\ second.monster_id # 0 THEN 0
    ELSE IF first.monster_id # 0 /\ second.monster_id = 0 THEN 2
    ELSE 1

\* first_monster_k, in halves.
FirstMonsterK(first, second) ==
    IF first.monster_id = 0 /\ second.monster_id # 0 THEN 2
    ELSE IF first.monster_id # 0 /\ second.monster_id = 0 THEN 0
    ELSE 1

\* Whether the inner loop of "Collide monsters together" reaches "Collide
\* here" for the objects a and b.
Collide(es, a, b) ==
    LET first == es[a]
        second == es[b]
        min_distance == monsters_description[first.monster_id + 1].w_radius
                        + monsters_description[second.monster_id + 1].w_radius
    IN  /\ first.health > 0
        /\ a # b
        /\ second.health > 0
        /\ SquareDistance(first.pos, second.pos)
               <= c_max_collide_distance * c_max_collide_distance
        /\ SquareDistance(first.pos, second.pos) <= min_distance * min_distance
        /\ ~(first.pos.z + player_height < second.pos.z
             \/ second.pos.z + player_height < first.pos.z)

\* One pass of the inner loop for the objects a and b, which stand apart
\* along an axis (collide_vec is a unit vector of the axis).
CollidePair(es, a, b) ==
    LET first == es[a]
        second == es[b]
        min_distance == monsters_description[first.monster_id + 1].w_radius
                        + monsters_description[second.monster_id + 1].w_radius
        vec == [x |-> second.pos.x - first.pos.x, y |-> second.pos.y - first.pos.y]
        move_delta == min_distance - Length(vec)
        first_monster_k == FirstMonsterK(first, second)
        first_shift(v) == (v * move_delta * first_monster_k) \div (2 * Length(vec))
        second_shift(v) == (v * move_delta * (2 - first_monster_k)) \div (2 * Length(vec))
    IN  IF ~Collide(es, a, b) THEN es
        ELSE [es EXCEPT ![a].pos.x = @ - first_shift(vec.x),
                        ![a].pos.y = @ - first_shift(vec.y),
                        ![b].pos.x = @ + second_shift(vec.x),
                        ![b].pos.y = @ + second_shift(vec.y)]

\* The pairs of ids in the order the two loops over monsters_ visit them.
PairsOf(order) ==
    [k \in 1 .. (Len(order) * Len(order)) |->
        << order[((k - 1) \div Len(order)) + 1], order[((k - 1) % Len(order)) + 1] >>]

\* The orders in which a loop may visit the monsters: by id, up or down.
Orders ==
    LET ids == DOMAIN monsters_
        n == Cardinality(ids)
        up == [k \in 1 .. n |-> CHOOSE id \in ids : Cardinality({j \in ids : j < id}) = k - 1]
    IN  { up, [k \in 1 .. n |-> up[n + 1 - k]] }

\* Tick: "Process monsters".
TickMonsters(order, moves, last_tick_delta) ==
    /\ pc = "monsters"
    /\ LET w == MonstersLoop(World, order, 1, moves,
                             last_tick_delta)
       IN  /\ entities' = w.entities
           /\ hit_calls' = w.hit_calls
    /\ tick_order' = order
    /\ pc' = "collide_with_map"
    /\ UNCHANGED << map_data_, map_end_callback_, world_vars, history, map_end_triggered_,
                    absolute_action_stage, current_time, tick_p, text_messages,
                    end_raised, callback_calls, callback_saw_flag, moved_state,
                    rockets_, next_rocket_id_, mines_, rockets_birth_messages_,
                    rockets_death_messages_, dynamic_items_birth_messages_,
                    dynamic_items_death_messages_, particles_effects_messages_,
                    destroy_calls, scenes_met, loop_visits, shot_vars,
                    map_monsters, monsters_, players_, next_monster_id_, spawn_ids,
                    tick_pairs, pass_corrections, event_vars >>

\* Tick: "Collide monsters with map".
TickCollideWithMap(garbage) ==
    /\ pc = "collide_with_map"
    /\ entities' = CollideWithMapLoop(World,
                                      tick_order, 1, garbage).entities
    /\ tick_pairs' = PairsOf(tick_order)
    /\ pc' = "collide_monsters"
    /\ UNCHANGED << map_vars_but_pc, combat_vars, shot_vars,
                    map_monsters, monsters_, players_, next_monster_id_, spawn_ids,
                    tick_order, pass_corrections, event_vars >>

\* Tick: one pass of the inner loop of "Collide monsters together", or the
\* end of the loops.
TickCollideMonsters ==
    /\ pc = "collide_monsters"
    /\ IF tick_pairs = << >>
       THEN /\ pc' = "map_end"
            /\ tick_order' = << >>
            /\ pass_corrections' = << >>
            /\ UNCHANGED << entities, tick_pairs >>
       ELSE /\ entities' = CollidePair(entities, monsters_[tick_pairs[1][1]],
                                       monsters_[tick_pairs[1][2]])
            /\ tick_pairs' = Tail(tick_pairs)
            /\ pass_corrections' =
                   IF Collide(entities, monsters_[tick_pairs[1][1]],
                              monsters_[tick_pairs[1][2]])
                   THEN Append(pass_corrections, tick_pairs[1])
                   ELSE pass_corrections
            /\ UNCHANGED << pc, tick_order >>
    /\ UNCHANGED << map_vars_but_pc, combat_vars, shot_vars,
                    map_monsters, monsters_, players_, next_monster_id_, spawn_ids,
                    event_vars >>

\* What lies past the end of walls_textures.
Garbage == { [gso |-> << FALSE, FALSE >>], [gso |-> << TRUE, TRUE >>] }

\* The moves of monsters that stand still.
Standing == [id \in DOMAIN monsters_ |-> entities[monsters_[id]].pos]

\* ------------------------------------------------------------- combat
\* The weapons in use: all but the one with a smoke trail.
CombatRocketTypes == { id \in 0 .. (Len(rockets_description) - 1) :
                         rockets_description[id + 1].smoke_trail_effect_id = 0 }

InitCombatSpec ==
    /\ InitMap({Level1})
    /\ InitCombat
    /\ NoMonsters
    /\ shot = [candidates |-> << >>, max_distance |-> 0, skip_monster_id |-> 0]
    /\ shot_result = NoShot

NextCombat ==
    \/ \E t \in CombatTimes : TickBegin(t)
    \/ TickProcedureStep
    \/ TickMoveMapObjects
    \/ TickStaticModels
    \/ \E scenes \in [RocketIds -> TickScenes] : TickRocketsLoop(scenes)
    \/ \E near \in [MineIds -> BOOLEAN] : TickMines(near)
    \/ \E order \in Orders, last_tick_delta \in CombatDeltas :
          TickMonsters(order, Standing, last_tick_delta)
    \/ \E garbage \in Garbage : TickCollideWithMap(garbage)
    \/ TickCollideMonsters
    \/ TickMapEnd
    \/ \E owner_id \in Monsters, rocket_type_id \in CombatRocketTypes :
          Shoot(owner_id, rocket_type_id, current_time)
    \/ PlantMine(current_time)

SpecCombat == InitCombatSpec /\ [][NextCombat]_vars

\* ------------------------------------------------------------- one shot
\* ProcessShot on its own: a ray over a static wall, a model, a dynamic wall,
\* two monsters, the floor and the ceiling, each missed or met at a distance.
Distances == 0 .. MaxDistance

ShotScenes ==
    { << Candidate("StaticWall", 0, sw, gso), Candidate("Model", 1, mo, FALSE),
         Candidate("DynamicWall", 0, dw, FALSE), Candidate("Monster", 1, m1, FALSE),
         Candidate("Monster", 2, m2, FALSE), Candidate("Floor", 0, fl, FALSE),
         Candidate("Floor", 1, ce, FALSE) >> :
        sw \in Distances, gso \in BOOLEAN, mo \in Distances, dw \in Distances,
        m1 \in Distances, m2 \in Distances, fl \in Distances, ce \in Distances }

NotReturned == [object_type |-> "NotReturned", object_index |-> 0, distance |-> 0]

InitShot ==
    /\ InitMap({Level1})
    /\ InitCombat
    /\ NoMonsters
    /\ shot \in [ candidates : ShotScenes,
                   max_distance : 1 .. (MaxDistance + 1),
                   skip_monster_id : 0 .. 2 ]
    /\ shot_result = NotReturned

CallProcessShot ==
    /\ shot_result = NotReturned
    /\ shot_result' = ProcessShot(shot.candidates, shot.max_distance, shot.skip_monster_id)
    /\ UNCHANGED << map_data_, map_end_callback_, world_vars, history, map_end_triggered_,
                    absolute_action_stage, current_time, pc, tick_p, text_messages,
                    end_raised, callback_calls, callback_saw_flag, moved_state,
                    combat_vars, shot, walk, grenade, death_run, sound_vars, rest_vars >>

NextShot == CallProcessShot

SpecShot == InitShot /\ [][NextShot]_vars

\* ------------------------------------------------------------- players join
\* Maps constructed from every monster list, joined by players.
InitPlayers ==
    /\ InitMap({Level1})
    /\ InitCombat
    /\ shot = [candidates |-> << >>, max_distance |-> 0, skip_monster_id |-> 0]
    /\ shot_result = NoShot
    /\ InitEntities(MonsterLists, 0 .. 1, 0 .. 1)

NextPlayers == \E player \in Players : SpawnPlayer(player)

SpecPlayers == InitPlayers /\ [][NextPlayers]_vars

\* ------------------------------------------------------------- monsters move
\* The places monster->Tick takes the monsters to: points of a line along the
\* y axis, each nearer to the next than two radii, at distances that keep
\* two monsters from ending on one point (where collide_vec has no direction).
Places == { Pos(6144, 4608 + 1280 * k + 64 * (2 ^ k - 1), 0) : k \in 0 .. (MaxEntities - 1) }

\* Every monster on a place of its own.
Moves == { moves \in [DOMAIN monsters_ -> Places] :
             \A i, j \in DOMAIN monsters_ : i # j => moves[i] # moves[j] }

\* A map with a spawn point and a monster, or with two monsters; players
\* join, and Ticks of no duration move the monsters and collide them.
InitMonsters ==
    /\ InitMap({Level1})
    /\ InitCombat
    /\ shot = [candidates |-> << >>, max_distance |-> 0, skip_monster_id |-> 0]
    /\ shot_result = NoShot
    /\ InitEntities({ << MapMonster(1, 0, 1, 0, 1), MapMonster(1, 1, 3, 1, 7) >>,
                      << MapMonster(1, 1, 3, 1, 7), MapMonster(1, 1, 1, 1, 1) >> },
                    {0}, {0})

NextMonsters ==
    \/ \E player \in Players :
          Cardinality(DOMAIN monsters_) < MaxEntities /\ SpawnPlayer(player)
    \/ TickBegin(current_time)
    \/ TickProcedureStep
    \/ TickMoveMapObjects
    \/ TickStaticModels
    \/ \E scenes \in [RocketIds -> TickScenes] : TickRocketsLoop(scenes)
    \/ \E near \in [MineIds -> BOOLEAN] : TickMines(near)
    \/ \E order \in Orders, moves \in Moves : TickMonsters(order, moves, 0)
    \/ \E garbage \in Garbage : TickCollideWithMap(garbage)
    \/ TickCollideMonsters
    \/ TickMapEnd

SpecMonsters == InitMonsters /\ [][NextMonsters]_vars

\* ------------------------------------------------------------- death ticks
\* The Ticks of a run follow each other without a gap, at times counted in
\* quarters of a second: each starts where the one before ended.
time_units_per_s == 4
DeathEnd == MaxTime * time_units_per_s
DeathDeltas == 0 .. (MaxDelta + 2)

\* A death-zone cell at (0, 0) with a band from 0.5 to 1.5, and a cell
\* without damage.
DeathCells == { [damage |-> 0, z_bottom |-> 0, z_top |-> 0],
                [damage |-> 5, z_bottom |-> 32, z_top |-> 96] }

\* Where the monster stays: in the cell below, in and above the band, and in
\* the next cell.
DeathPlaces == { Pos(2048, 2048, -2560), Pos(2048, 2048, 0), Pos(2048, 2048, 6400),
                 Pos(6144, 2048, 0) }

InitDeath ==
    /\ InitMap({Level2})
    /\ InitCombat
    /\ NoMonsters
    /\ shot = [candidates |-> << >>, max_distance |-> 0, skip_monster_id |-> 0]
    /\ shot_result = NoShot

\* A monster comes to stand at pos at the time t0, where the death field
\* holds the cell.
EnterDeathZone(t0, cell, pos) ==
    /\ pc = "idle"
    /\ death_run = << >>
    /\ death_run' = << [ t0 |-> t0, time |-> t0, pos |-> pos,
                         death_field_ |-> [c \in Cells |-> IF c = 0 THEN cell
                                                           ELSE [damage |-> 0, z_bottom |-> 0,
                                                                 z_top |-> 0]],
                         ticks |-> 0, damage |-> 0,
                         last_ticks |-> 0, last_damage |-> 0 ] >>
    /\ UNCHANGED << map_vars, combat_vars, shot, shot_result, walk, grenade, sound_vars,
                    rest_vars >>

\* One Tick as the monster in the zone sees it: death_ticks of the Tick and
\* the Hit of "Process death for monster".
TickDeathZone(last_tick_delta) ==
    /\ pc = "idle"
    /\ death_run # << >>
    /\ death_run[1].time + last_tick_delta <= DeathEnd
    /\ LET run == death_run[1]
           t == run.time + last_tick_delta
           death_ticks == DeathTicks(t, last_tick_delta, time_units_per_s)
           hit == DeathZoneHit(run.pos, run.death_field_, death_ticks)
       IN  death_run' = << [ run EXCEPT !.time = t,
                                        !.ticks = @ + death_ticks,
                                        !.damage = @ + hit,
                                        !.last_ticks = death_ticks,
                                        !.last_damage = hit ] >>
    /\ UNCHANGED << map_vars, combat_vars, shot, shot_result, walk, grenade, sound_vars,
                    rest_vars >>

NextDeath ==
    \/ \E t0 \in 0 .. time_units_per_s, cell \in DeathCells, pos \in DeathPlaces :
          EnterDeathZone(t0, cell, pos)
    \/ \E last_tick_delta \in DeathDeltas : TickDeathZone(last_tick_delta)

SpecDeath == InitDeath /\ [][NextDeath]_vars

\* ------------------------------------------------------------- floor and ceiling
\* The player switches noclip on or off between two Ticks.
SetNoclip(player, noclip) ==
    /\ pc = "idle"
    /\ \E id \in DOMAIN players_ : players_[id] = player
    /\ entities[player].noclip # noclip
    /\ entities' = [entities EXCEPT ![player].noclip = noclip]
    /\ UNCHANGED << map_vars, combat_vars, shot_vars, map_monsters, monsters_, players_,
                    next_monster_id_, spawn_ids, pass_vars, event_vars >>

\* The heights monster->Tick leaves a monster at: below the floor, within
\* reach of a model's top, on it, and with the head above the ceiling.
ClampHeights == { -512, 1536, 2048, 6144 }

\* Every monster moves in a column of its own (NextClamp), all to one
\* height: the first two beside the level's two models, the others in the
\* open.
InitClamp ==
    /\ InitMap({Level1})
    /\ InitCombat
    /\ shot = [candidates |-> << >>, max_distance |-> 0, skip_monster_id |-> 0]
    /\ shot_result = NoShot
    /\ InitEntities({ << MapMonster(1, 0, 1, 0, 1), MapMonster(1, 1, 3, 1, 7) >> },
                    {0}, {0})

NextClamp ==
    \/ \E player \in Players :
          Cardinality(DOMAIN monsters_) < MaxEntities /\ SpawnPlayer(player)
    \/ \E player \in Players, noclip \in BOOLEAN : SetNoclip(player, noclip)
    \/ TickBegin(current_time)
    \/ TickProcedureStep
    \/ TickMoveMapObjects
    \/ TickStaticModels
    \/ \E scenes \in [RocketIds -> TickScenes] : TickRocketsLoop(scenes)
    \/ \E near \in [MineIds -> BOOLEAN] : TickMines(near)
    \/ \E order \in Orders, z \in ClampHeights :
          TickMonsters(order,
                       [id \in DOMAIN monsters_ |-> Pos(512 + PosScale * (id - 1), 512, z)],
                       0)
    \/ \E garbage \in Garbage : TickCollideWithMap(garbage)
    \/ TickCollideMonsters
    \/ TickMapEnd

SpecClamp == InitClamp /\ [][NextClamp]_vars

\* ------------------------------------------------------------- the player's steps
\* CircleIntersectsWithSquare for the unit square of the tile (x, y).
CircleIntersectsWithSquare(center, radius, x, y) ==
    LET nearest_x == Max(x * PosScale, Min(center.x, (x + 1) * PosScale))
        nearest_y == Max(y * PosScale, Min(center.y, (y + 1) * PosScale))
    IN  (center.x - nearest_x) * (center.x - nearest_x)
          + (center.y - nearest_y) * (center.y - nearest_y) < radius * radius

\* std::floor of a coordinate, in tiles.
FloorTile(coord) == IF coord >= 0 THEN coord \div PosScale
                    ELSE -((PosScale - 1 - coord) \div PosScale)

\* Map::TryActivateProcedure on the state s = [w, messages]; gate is the
\* answer of player.TryActivateProcedure.
TryActivateProcedureFor(s, p, t, gate, keys) ==
    LET procedure == map_data_.procedures[p]
        procedure_state == s.w.procedures_[p]
        have_necessary_keys == HaveNecessaryKeys(procedure, keys)
        activated == /\ have_necessary_keys
                     /\ ~procedure_state.locked
                     /\ procedure_state.movement_state = "None"
        w1 == IF activated THEN ActivateProcedure(s.w, p, t) ELSE s.w
        first == FirstMessageDue(procedure, procedure_state)
        lock == LockMessageDue(procedure, procedure_state, have_necessary_keys)
        on == procedure.on_message_number # 0
    IN  IF ~gate THEN s
        ELSE [ w |-> [w1 EXCEPT !.procedures_[p].first_message_printed = (@ \/ first),
                                !.first_sent[p] = IF first THEN Inc(@) ELSE @],
               messages |-> s.messages
                   \o (IF first THEN << procedure.first_message_number >> ELSE << >>)
                   \o (IF lock THEN << procedure.lock_message_number >> ELSE << >>)
                   \o (IF on THEN << procedure.on_message_number >> ELSE << >>) ]

\* Map::ReturnProcedure on the state s.
ReturnProcedureFor(s, p, t) ==
    [s EXCEPT !.w = ClearHistory(
                        [s.w EXCEPT !.procedures_[p] =
                            ReturnProcedureState(@, map_data_.procedures[p], t)], p)]

\* "Process floors" from the k-th pass of the inner loop on: the tiles
\* x0 .. x1 - 1 by y0 .. y1 - 1, and for each tile every link.
RECURSIVE ProcessFloorsFrom(_, _, _, _, _, _, _)
ProcessFloorsFrom(s, k, pos, tiles, t, gates, keys) ==
    LET ny == tiles.y1 - tiles.y0
        links == Len(map_data_.links)
        tile == (k - 1) \div links
        x == tiles.x0 + (tile \div ny)
        y == tiles.y0 + (tile % ny)
        i == ((k - 1) % links) + 1
        link == map_data_.links[i]
        s1 == IF ~CircleIntersectsWithSquare(pos, player_radius, x, y) THEN s
              ELSE IF link.type = "Floor" /\ link.x = x /\ link.y = y
              THEN TryActivateProcedureFor(s, link.proc_id, t, gates[i], keys)
              ELSE IF link.type = "ReturnFloor" /\ link.x = x /\ link.y = y
              THEN ReturnProcedureFor(s, link.proc_id, t)
              ELSE s
    IN  IF ny <= 0 \/ links = 0 \/ k > (tiles.x1 - tiles.x0) * ny * links THEN s
        ELSE ProcessFloorsFrom(s1, k + 1, pos, tiles, t, gates, keys)

\* ProcessElementLinks with the function the player's touch passes: Link_
\* tries to activate, Return calls back.
RECURSIVE ProcessTouchLinksFrom(_, _, _, _, _, _, _)
ProcessTouchLinksFrom(s, i, element_type, index, t, gates, keys) ==
    IF i > Len(map_data_.links) THEN s
    ELSE LET link == map_data_.links[i]
             index_element == map_index[link.x + link.y * c_map_size]
             hit == index_element.type = element_type /\ index_element.index = index
             s1 == IF ~hit THEN s
                   ELSE IF link.type = "Link"
                   THEN TryActivateProcedureFor(s, link.proc_id, t, gates[i], keys)
                   ELSE IF link.type = "Return" THEN ReturnProcedureFor(s, link.proc_id, t)
                   ELSE s
         IN ProcessTouchLinksFrom(s1, i + 1, element_type, index, t, gates, keys)

\* The test of "Dynamic walls links" for the wall d: within reach of its
\* segment and of its height.
TouchesDynamicWall(w, d, pos, garbage) ==
    LET wall == w.dynamic_walls_[d]
        tex == WallTexture(map_dynamic_walls[d].texture_id, garbage)
    IN  /\ wall.vert_pos[1] # wall.vert_pos[2]
        /\ ~tex.gso[1]
        /\ ~(pos.z + player_height < wall.z \/ pos.z > wall.z + walls_height)
        /\ CollideCircleWithLineSegment(wall.vert_pos[1], wall.vert_pos[2],
                                        pos, player_interact_radius).hit

\* "Dynamic walls links" from the wall d on.
RECURSIVE DynamicWallsLinksFrom(_, _, _, _, _, _, _)
DynamicWallsLinksFrom(s, d, pos, t, gates, keys, garbage) ==
    IF d > Len(s.w.dynamic_walls_) THEN s
    ELSE DynamicWallsLinksFrom(
             IF TouchesDynamicWall(s.w, d, pos, garbage)
             THEN ProcessTouchLinksFrom(s, 1, "DynamicWall", d, t, gates, keys)
             ELSE s,
             d + 1, pos, t, gates, keys, garbage)

\* The test of "Models links" for the model m.
TouchesModel(w, m, pos) ==
    LET model == w.static_models_[m]
        min_distance == player_interact_radius
                          + models_description[model.model_id + 1].radius
    IN  /\ ModelInRange(model.model_id)
        /\ ~(pos.z + player_height < models[model.model_id + 1].z_min + model.pos.z
              \/ pos.z > models[model.model_id + 1].z_max + model.pos.z)
        /\ SquareDistance(pos, model.pos) <= min_distance * min_distance

\* "Models links" from the model m on.
RECURSIVE ModelsLinksFrom(_, _, _, _, _, _)
ModelsLinksFrom(s, m, pos, t, gates, keys) ==
    IF m > Len(s.w.static_models_) THEN s
    ELSE ModelsLinksFrom(
             IF TouchesModel(s.w, m, pos)
             THEN ProcessTouchLinksFrom(s, 1, "StaticModel", m, t, gates, keys)
             ELSE s,
             m + 1, pos, t, gates, keys)

\* Variant: the call returns right after the floors.
PlayerPositionProcessed_FloorsOnly(w, pos, t, gates, keys, garbage) ==
    LET player_x == FloorTile(pos.x)
        player_y == FloorTile(pos.y)
        tiles == [ x0 |-> Max(0, player_x - 2), x1 |-> Min(c_map_size, player_x + 2),
                   y0 |-> Max(0, player_y - 2), y1 |-> Min(c_map_size, player_y + 2) ]
    IN  IF player_x < 0 \/ player_y < 0 \/ player_x >= c_map_size \/ player_y >= c_map_size
        THEN [w |-> w, messages |-> << >>]
        ELSE ProcessFloorsFrom([w |-> w, messages |-> << >>], 1, pos, tiles, t, gates, keys)

\* What ProcessPlayerPosition does to the procedures for a player at pos:
\* the floors, then the links of the dynamic walls and of the models he
\* touches. (The levels have no static walls, keys or items; the pick-ups
\* that follow call TryActivateProcedure only.)
PlayerPositionProcessed(w, pos, t, gates, keys, garbage) ==
    LET player_x == FloorTile(pos.x)
        player_y == FloorTile(pos.y)
        tiles == [ x0 |-> Max(0, player_x - 2), x1 |-> Min(c_map_size, player_x + 2),
                   y0 |-> Max(0, player_y - 2), y1 |-> Min(c_map_size, player_y + 2) ]
        floors == ProcessFloorsFrom([w |-> w, messages |-> << >>], 1, pos, tiles, t,
                                    gates, keys)
        walls == DynamicWallsLinksFrom(floors, 1, pos, t, gates, keys, garbage)
    IN  IF player_x < 0 \/ player_y < 0 \/ player_x >= c_map_size \/ player_y >= c_map_size
        THEN [w |-> w, messages |-> << >>]
        ELSE ModelsLinksFrom(walls, 1, pos, t, gates, keys)

ProcessPlayerPosition(t, player_monster_id, gates, keys, garbage) ==
    /\ pc = "idle"
    /\ current_time' = t
    /\ \E s \in { PlayerPositionProcessed(World, entities[monsters_[player_monster_id]].pos,
                                           t, gates, keys, garbage) } :
          /\ SetWorld(s.w)
          /\ text_messages' = s.messages
    /\ walk' = << [id |-> player_monster_id, gates |-> gates, keys |-> keys] >>
    /\ UNCHANGED << map_data_, map_end_callback_, map_end_triggered_, absolute_action_stage,
                    pc, tick_p, end_raised, callback_calls, callback_saw_flag, moved_state,
                    combat_vars, shot, shot_result, grenade, death_run, sound_vars, rest_vars >>

\* Where the player's own movement takes him: the middle of the tile (0, 0),
\* its edge to the tile (1, 0), a step outside the map beside it, and the
\* edge of the tile (1, 1) by the dynamic wall.
WalkPlaces == { Pos(2048, 2048, 0), Pos(3584, 2048, 0), Pos(-512, 2048, 0),
                Pos(3584, 5120, 0) }

\* The answers of player.TryActivateProcedure to the calls of one
\* ProcessPlayerPosition, by link: all permitted, or the first refused.
Gates == { [i \in DOMAIN map_data_.links |-> i \notin refused] : refused \in {{}, {1}} }

InitWalk ==
    /\ InitMap({Level4})
    /\ InitCombat
    /\ NoMonsters
    /\ shot = [candidates |-> << >>, max_distance |-> 0, skip_monster_id |-> 0]
    /\ shot_result = NoShot

NextWalk ==
    \/ \E player \in Players : players_ = NoEntities /\ SpawnPlayer(player)
    \/ \E t \in Times : TickBegin(t)
    \/ TickProcedureStep
    \/ TickMoveMapObjects
    \/ TickStaticModels
    \/ \E scenes \in [RocketIds -> TickScenes] : TickRocketsLoop(scenes)
    \/ \E near \in [MineIds -> BOOLEAN] : TickMines(near)
    \/ \E order \in Orders, moves \in [DOMAIN monsters_ -> WalkPlaces] :
          TickMonsters(order, moves, 0)
    \/ \E garbage \in Garbage : TickCollideWithMap(garbage)
    \/ TickCollideMonsters
    \/ TickMapEnd
    \/ \E id \in DOMAIN players_, gates \in Gates, keys \in {{}, {"red"}},
          garbage \in Garbage :
          ProcessPlayerPosition(current_time, id, gates, keys, garbage)

SpecWalk == InitWalk /\ [][NextWalk]_vars

\* Whole Ticks on Level 5: a player who sets the doors going and walks to the
\* dynamic wall, and a rocket in flight.
TickPlaces == { Pos(2048, 2048, 0), Pos(2048, 4608, 0) }

\* What its one rocket flies into: nothing, the barrel or the floor.
TickRocketScenes ==
    { scene \in TickScenes :
        scene.candidates = << >> \/ scene.candidates[1].object_type # "Monster" }

InitTick ==
    /\ InitMap({Level5})
    /\ InitCombat
    /\ NoMonsters
    /\ shot = [candidates |-> << >>, max_distance |-> 0, skip_monster_id |-> 0]
    /\ shot_result = NoShot

NextTick ==
    \/ \E player \in Players : players_ = NoEntities /\ SpawnPlayer(player)
    \/ \E t \in Times : TickBegin(t)
    \/ TickProcedureStep
    \/ TickMoveMapObjects
    \/ TickStaticModels
    \/ \E scenes \in [RocketIds -> TickRocketScenes] : TickRocketsLoop(scenes)
    \/ \E near \in [MineIds -> BOOLEAN] : TickMines(near)
    \/ \E order \in Orders, moves \in [DOMAIN monsters_ -> TickPlaces] :
          TickMonsters(order, moves, 0)
    \/ \E garbage \in Garbage : TickCollideWithMap(garbage)
    \/ TickCollideMonsters
    \/ TickMapEnd
    \/ next_rocket_id_ = 1 /\ Shoot(1, 1, current_time)
    \/ \E id \in DOMAIN players_, garbage \in Garbage :
          ProcessPlayerPosition(current_time, id, [i \in DOMAIN map_data_.links |-> TRUE],
                                {"red"}, garbage)

SpecTick == InitTick /\ [][NextTick]_vars

\* ------------------------------------------------------------- a reflecting rocket
\* The rockets loop of Tick for one reflecting rocket that flies along the z
\* axis: its height, its vertical speed and what its ray meets. grenade is
\* << >> or << rocket >>; the rocket keeps, beside the fields of the source,
\* what the last Tick found for it.
GrenadeTypeId == 2

\* Map::Shoot for the reflecting rocket, from the height from_z, up
\* (direction_z = 1) or down (-1).
ShootGrenade(owner_id, from_z, direction_z) ==
    /\ pc = "idle"
    /\ grenade = << >>
    /\ grenade' = << [ rocket_type_id |-> GrenadeTypeId, owner_id |-> owner_id,
                       z |-> from_z, speed_z |-> direction_z * rockets_speed,
                       time_delta_s |-> 0, live |-> TRUE,
                       found |-> NoShot, reflected |-> FALSE ] >>
    /\ UNCHANGED << map_vars, combat_vars, shot, shot_result, walk, death_run, sound_vars, rest_vars >>

\* Variant: the rocket is put on the floor and keeps falling.
ReflectedFlight_NoReflect(rocket, last_tick_delta_s) ==
    LET gravity_force == rockets_gravity_scale
                           * rockets_description[rocket.rocket_type_id + 1].gravity_force
        speed_z == rocket.speed_z - gravity_force * last_tick_delta_s
        new_z == rocket.z + speed_z * last_tick_delta_s
    IN  IF new_z < 0 THEN [z |-> 0, speed_z |-> speed_z, reflected |-> TRUE]
        ELSE [z |-> new_z, speed_z |-> speed_z, reflected |-> FALSE]

\* The new position and speed of a reflecting rocket.
ReflectedFlight(rocket, last_tick_delta_s) ==
    LET gravity_force == rockets_gravity_scale
                           * rockets_description[rocket.rocket_type_id + 1].gravity_force
        speed_z == rocket.speed_z - gravity_force * last_tick_delta_s
        new_z == rocket.z + speed_z * last_tick_delta_s
    IN  IF new_z < 0 THEN [z |-> 0, speed_z |-> Abs(speed_z), reflected |-> TRUE]
        ELSE [z |-> new_z, speed_z |-> speed_z, reflected |-> FALSE]

\* What the ray of the rocket meets: the obstacles (walls, models, monsters,
\* by distance), then the floor when it flies down and the ceiling when it
\* flies up, as ProcessShot visits them.
GrenadeCandidates(rocket, new_z, obstacles, textured) ==
    obstacles
    \o (IF new_z < rocket.z
        THEN << Candidate("Floor", 0, rocket.z, ~textured) >>
        ELSE << Candidate("Floor", 1, ceiling_z - rocket.z, ~textured) >>)

\* One pass of the rockets loop for the rocket; the rocket stays in the
\* record after its removal, with live = FALSE.
TickReflectingRocket(last_tick_delta_s, obstacles, textured) ==
    /\ pc = "idle"
    /\ grenade # << >>
    /\ grenade[1].live
    /\ LET rocket == grenade[1]
           flight == ReflectedFlight(rocket, last_tick_delta_s)
           time_delta_s == rocket.time_delta_s + last_tick_delta_s
           scene == Scene(GrenadeCandidates(rocket, flight.z, obstacles, textured),
                          Abs(flight.z - rocket.z) + c_length_eps)
           found == ProcessShot(scene.candidates, scene.max_distance, rocket.owner_id)
           hit_result == RocketHitResult(rocket, scene)
       IN  /\ flight.z # rocket.z
           /\ grenade' = << [ rocket EXCEPT
                                !.z = flight.z,
                                !.speed_z = flight.speed_z,
                                !.reflected = flight.reflected,
                                !.time_delta_s = time_delta_s,
                                !.found = found,
                                !.live = ~( hit_result.object_type # "None"
                                            \/ time_delta_s > max_rocket_flight_s ) ] >>
    /\ UNCHANGED << map_vars, combat_vars, shot, shot_result, walk, death_run, sound_vars, rest_vars >>

\* What stands in the rocket's way: nothing, a wall or a monster one tile
\* off, a model a quarter of a tile off.
GrenadeObstacles ==
    { << >>, << Candidate("StaticWall", 0, 4096, FALSE) >>,
      << Candidate("Model", 1, 1024, FALSE) >>,
      << Candidate("Monster", 2, 4096, FALSE) >> }

\* The heights the rocket is shot from.
GrenadeHeights == { 1024, 1536, 1568, 4096, 7680 }

InitGrenade ==
    /\ InitMap({Level1})
    /\ InitCombat
    /\ NoMonsters
    /\ shot = [candidates |-> << >>, max_distance |-> 0, skip_monster_id |-> 0]
    /\ shot_result = NoShot

NextGrenade ==
    \/ \E from_z \in GrenadeHeights, direction_z \in {-1, 1} :
          ShootGrenade(1, from_z, direction_z)
    \/ \E last_tick_delta_s \in 1 .. 2, obstacles \in GrenadeObstacles, textured \in BOOLEAN :
          TickReflectingRocket(last_tick_delta_s, obstacles, textured)

SpecGrenade == InitGrenade /\ [][NextGrenade]_vars

\* ------------------------------------------------------------- update events
\* The monsters' and players' code queues its events through these three.
MonsterEvents ==
    Len(monsters_parts_birth_messages_) + Len(monster_linked_sounds_messages_)
      + Len(monsters_sounds_messages_)

SpawnMonsterBodyPart(monster_type_id, body_part_id) ==
    /\ pc = "idle"
    /\ MonsterEvents < MaxMonsterEvents
    /\ monsters_parts_birth_messages_' =
           Append(monsters_parts_birth_messages_,
                  [monster_type |-> monster_type_id, part_id |-> body_part_id])
    /\ UNCHANGED << map_vars, combat_vars, shot_vars, entity_vars, pass_vars, sink_vars,
                    sprite_effects_, map_events_sounds_messages_,
                    monster_linked_sounds_messages_, monsters_sounds_messages_ >>

PlayMonsterLinkedSound(monster_id, sound_id) ==
    /\ pc = "idle"
    /\ MonsterEvents < MaxMonsterEvents
    /\ monster_linked_sounds_messages_' =
           Append(monster_linked_sounds_messages_,
                  [monster_id |-> monster_id, sound_id |-> sound_id])
    /\ UNCHANGED << map_vars, combat_vars, shot_vars, entity_vars, pass_vars, sink_vars,
                    sprite_effects_, map_events_sounds_messages_,
                    monsters_parts_birth_messages_, monsters_sounds_messages_ >>

PlayMonsterSound(monster_id, monster_sound_id) ==
    /\ pc = "idle"
    /\ MonsterEvents < MaxMonsterEvents
    /\ monsters_sounds_messages_' =
           Append(monsters_sounds_messages_,
                  [monster_id |-> monster_id, monster_sound_id |-> monster_sound_id])
    /\ UNCHANGED << map_vars, combat_vars, shot_vars, entity_vars, pass_vars, sink_vars,
                    sprite_effects_, map_events_sounds_messages_,
                    monsters_parts_birth_messages_, monster_linked_sounds_messages_ >>

\* How often the i-th event of a queue was handed to the messages sender.
Delivered(counts, queue, i) ==
    IF i <= Len(counts[queue]) THEN counts[queue][i] ELSE 0

RocketMessage(kind, rocket_id) == [kind |-> kind, rocket_id |-> rocket_id]

\* Variant: the state messages of the rockets go out first.
RocketMessages_StatesFirst ==
    [r \in DOMAIN rockets_ |-> RocketMessage("RocketState", rockets_[r].rocket_id)]
    \o [i \in DOMAIN rockets_birth_messages_ |->
           RocketMessage("RocketBirth", rockets_birth_messages_[i])]
    \o [i \in DOMAIN rockets_death_messages_ |->
           RocketMessage("RocketDeath", rockets_death_messages_[i])]

\* The messages about rockets in the order in which SendUpdateMessages hands
\* them to the messages sender: the loops over rockets_birth_messages_, over
\* rockets_death_messages_ and, after the other queues, over rockets_.
RocketMessages ==
    [i \in DOMAIN rockets_birth_messages_ |->
        RocketMessage("RocketBirth", rockets_birth_messages_[i])]
    \o [i \in DOMAIN rockets_death_messages_ |->
           RocketMessage("RocketDeath", rockets_death_messages_[i])]
    \o [r \in DOMAIN rockets_ |-> RocketMessage("RocketState", rockets_[r].rocket_id)]

\* SendUpdateMessages, a const method: every queued event goes to the
\* messages sender once more, and every rocket's state after the queues.
\* (The state messages of walls, models, items and monsters it also sends
\* are not counted.) sender keeps the rocket messages of the last call, the
\* rockets whose death was ever sent, and the id of the first rocket shot
\* after the queues were last cleared.
SendUpdateMessages ==
    /\ pc = "idle"
    /\ sends_since_clear < MaxSends
    /\ deliveries' = [queue \in DOMAIN EventQueues |->
                         [i \in 1 .. Len(EventQueues[queue]) |->
                             Delivered(deliveries, queue, i) + 1]]
    /\ sends_since_clear' = sends_since_clear + 1
    /\ sender' = [sender EXCEPT !.last = RocketMessages,
                                !.dead = @ \cup { rockets_death_messages_[i] :
                                                    i \in DOMAIN rockets_death_messages_ }]
    /\ UNCHANGED << map_vars, combat_vars, shot_vars, entity_vars, pass_vars,
                    monster_event_vars, sprite_effects_, map_events_sounds_messages_ >>

\* Variant: the map-event sounds stay queued.
ClearUpdateEvents_KeepSounds ==
    /\ pc = "idle"
    /\ sprite_effects_' = << >>
    /\ rockets_birth_messages_' = << >>
    /\ rockets_death_messages_' = << >>
    /\ dynamic_items_birth_messages_' = << >>
    /\ dynamic_items_death_messages_' = << >>
    /\ particles_effects_messages_' = << >>
    /\ monsters_parts_birth_messages_' = << >>
    /\ monster_linked_sounds_messages_' = << >>
    /\ monsters_sounds_messages_' = << >>
    /\ deliveries' = [deliveries EXCEPT
                         ![ "sprite_effects_" ] = << >>,
                         ![ "rockets_birth_messages_" ] = << >>,
                         ![ "rockets_death_messages_" ] = << >>,
                         ![ "dynamic_items_birth_messages_" ] = << >>,
                         ![ "dynamic_items_death_messages_" ] = << >>,
                         ![ "particles_effects_messages_" ] = << >>,
                         ![ "monsters_parts_birth_messages_" ] = << >>,
                         ![ "monster_linked_sounds_messages_" ] = << >>,
                         ![ "monsters_sounds_messages_" ] = << >>]
    /\ sends_since_clear' = 0
    /\ sender' = [sender EXCEPT !.first_id = next_rocket_id_]
    /\ UNCHANGED << map_vars, rockets_, next_rocket_id_, mines_, hit_calls, destroy_calls,
                    scenes_met, loop_visits, shot_vars, entity_vars, pass_vars,
                    map_events_sounds_messages_ >>

ClearUpdateEvents ==
    /\ pc = "idle"
    /\ sprite_effects_' = << >>
    /\ rockets_birth_messages_' = << >>
    /\ rockets_death_messages_' = << >>
    /\ dynamic_items_birth_messages_' = << >>
    /\ dynamic_items_death_messages_' = << >>
    /\ particles_effects_messages_' = << >>
    /\ monsters_parts_birth_messages_' = << >>
    /\ map_events_sounds_messages_' = << >>
    /\ monster_linked_sounds_messages_' = << >>
    /\ monsters_sounds_messages_' = << >>
    /\ deliveries' = [queue \in DOMAIN EventQueues |-> << >>]
    /\ sends_since_clear' = 0
    /\ sender' = [sender EXCEPT !.first_id = next_rocket_id_]
    /\ UNCHANGED << map_vars, rockets_, next_rocket_id_, mines_, hit_calls, destroy_calls,
                    scenes_met, loop_visits, shot_vars, entity_vars, pass_vars >>

\* One weapon with a smoke trail, mines and what the monsters queue, then one
\* Tick at the time that arms the mines, with a monster near each and the
\* floor or nothing in a rocket's way; the host sends and clears as it likes.
InitEvents ==
    /\ InitMap({Level1})
    /\ InitCombat
    /\ NoMonsters
    /\ shot = [candidates |-> << >>, max_distance |-> 0, skip_monster_id |-> 0]
    /\ shot_result = NoShot

NextEvents ==
    \/ current_time < mines_preparation_time_s /\ TickBegin(mines_preparation_time_s)
    \/ TickProcedureStep
    \/ TickMoveMapObjects
    \/ TickStaticModels
    \/ \E scenes \in [RocketIds -> { scene \in TickScenes :
                                         \A i \in DOMAIN scene.candidates :
                                            scene.candidates[i].object_type = "Floor" }] :
          TickRocketsLoop(scenes)
    \/ TickMines([id \in MineIds |-> TRUE])
    \/ \E order \in Orders, last_tick_delta \in CombatDeltas :
          TickMonsters(order, Standing, last_tick_delta)
    \/ \E garbage \in Garbage : TickCollideWithMap(garbage)
    \/ TickCollideMonsters
    \/ TickMapEnd
    \/ \E rocket_type_id \in (0 .. (Len(rockets_description) - 1)) \ CombatRocketTypes :
          current_time < mines_preparation_time_s /\ Shoot(1, rocket_type_id, current_time)
    \/ current_time < mines_preparation_time_s /\ PlantMine(current_time)
    \/ current_time < mines_preparation_time_s /\ SpawnMonsterBodyPart(1, 0)
    \/ current_time < mines_preparation_time_s /\ PlayMonsterLinkedSound(1, 0)
    \/ current_time < mines_preparation_time_s /\ PlayMonsterSound(1, 0)
    \/ SendUpdateMessages
    \/ ClearUpdateEvents

SpecEvents == InitEvents /\ [][NextEvents]_vars

\* ------------------------------------------------------------- sound engine
\* The sound engine runs on the thread of the game: PlayHeadSound, Tick and
\* the destructor follow one another. The driver's mixer runs on the audio
\* thread whenever the channels are not locked.
not_sound_vars == << map_vars, combat_vars, shot, shot_result, walk, grenade, death_run,
                     rest_vars >>

\* Variant: the lock is not taken.
LockChannels_Skip(locks) == locks

\* driver_.LockChannels() and driver_.UnlockChannels().
LockChannels(locks) == locks + 1
UnlockChannels(locks) == locks - 1

\* The sample count of the sound a channel plays.
SampleCount(channel) == global_sounds_[channel.src_sound_data + 1]

\* Variant: the source that was freed last is taken.
FirstFreeSource_Last(sources) ==
    IF \E i \in DOMAIN sources : sources[i].is_free
    THEN CHOOSE i \in DOMAIN sources :
            /\ sources[i].is_free
            /\ \A j \in DOMAIN sources : sources[j].is_free => j <= i
    ELSE 0

\* The loop of PlayHeadSound: the first free source, or 0 for none.
FirstFreeSource(sources) ==
    IF \E i \in DOMAIN sources : sources[i].is_free
    THEN CHOOSE i \in DOMAIN sources :
            /\ sources[i].is_free
            /\ \A j \in DOMAIN sources : sources[j].is_free => i <= j
    ELSE 0

\* The sources that PlayHeadSound( sound_number ) leaves.
HeadSoundSources(sources, sound_number) ==
    LET source == FirstFreeSource(sources)
    IN  IF source = 0 THEN sources
        ELSE IF global_sounds_[sound_number + 1] = nullptr THEN sources
        ELSE [sources EXCEPT ![source] =
                 [is_free |-> FALSE, sound_id |-> sound_number, pos_samples |-> 0]]

PlayHeadSound(sound_number) ==
    /\ sound_pc = "idle"
    /\ sources_' = HeadSoundSources(sources_, sound_number)
    /\ UNCHANGED << channels, driver_locks, sound_pc, sound_i, tick_start, not_sound_vars >>

\* Tick: driver_.LockChannels().
SoundTickLock ==
    /\ sound_pc = "idle"
    /\ driver_locks' = LockChannels(driver_locks)
    /\ sound_pc' = "tick"
    /\ sound_i' = 1
    /\ tick_start' = [sources_ |-> sources_, channels |-> channels]
    /\ UNCHANGED << sources_, channels, not_sound_vars >>

\* The loop is done with the channel i.
SoundTickNext ==
    /\ sound_i' = sound_i + 1
    /\ sound_pc' = IF sound_i < c_max_channels THEN "tick" ELSE "tick_unlock"

\* Tick, the loop's body up to "Channel not active - fill data for channel":
\* the channel of a free source is switched off; that of a source in use
\* gets its volume and, when it is not active, is switched on.
SoundTickChannel ==
    /\ sound_pc = "tick"
    /\ LET channel == channels[sound_i]
           source == sources_[sound_i]
       IN  IF source.is_free
           THEN /\ channels' = [channels EXCEPT ![sound_i].is_active = FALSE]
                /\ SoundTickNext
           ELSE /\ channels' = [channels EXCEPT ![sound_i].volume = 1,
                                                ![sound_i].is_active = TRUE]
                /\ sound_i' = sound_i
                /\ sound_pc' = IF channel.is_active THEN "tick_over" ELSE "tick_fill"
    /\ UNCHANGED << sources_, driver_locks, tick_start, not_sound_vars >>

\* Tick, the rest of the fill: position_samples and src_sound_data.
SoundTickFill ==
    /\ sound_pc = "tick_fill"
    /\ channels' = [channels EXCEPT ![sound_i].position_samples = 0,
                                    ![sound_i].src_sound_data =
                                        IF global_sounds_[sources_[sound_i].sound_id + 1] = nullptr
                                        THEN nullptr ELSE sources_[sound_i].sound_id]
    /\ sound_pc' = "tick_over"
    /\ UNCHANGED << sources_, driver_locks, sound_i, tick_start, not_sound_vars >>

\* Variant: the position has to pass the end.
SourceIsOver_Strict(channel) ==
    /\ channel.is_active
    /\ channel.src_sound_data # nullptr
    /\ channel.position_samples > SampleCount(channel)

\* The test of "Source is over".
SourceIsOver(channel) ==
    /\ channel.is_active
    /\ channel.src_sound_data # nullptr
    /\ channel.position_samples >= SampleCount(channel)

\* Tick, "Source is over".
SoundTickOver ==
    /\ sound_pc = "tick_over"
    /\ IF SourceIsOver(channels[sound_i])
       THEN /\ sources_' = [sources_ EXCEPT ![sound_i].is_free = TRUE]
            /\ channels' = [channels EXCEPT ![sound_i].is_active = FALSE]
       ELSE UNCHANGED << sources_, channels >>
    /\ SoundTickNext
    /\ UNCHANGED << driver_locks, tick_start, not_sound_vars >>

\* Tick: driver_.UnlockChannels().
SoundTickUnlock ==
    /\ sound_pc = "tick_unlock"
    /\ driver_locks' = UnlockChannels(driver_locks)
    /\ sound_pc' = "idle"
    /\ UNCHANGED << sources_, channels, sound_i, tick_start, not_sound_vars >>

\* ~SoundEngine: driver_.LockChannels().
DestructorLock ==
    /\ sound_pc = "idle"
    /\ driver_locks' = LockChannels(driver_locks)
    /\ sound_pc' = "destructor"
    /\ sound_i' = 1
    /\ UNCHANGED << sources_, channels, tick_start, not_sound_vars >>

\* Variant: the channel is left as it is.
StopChannel_Keep(channel) == channel

\* ~SoundEngine, the loop's body.
StopChannel(channel) == [channel EXCEPT !.is_active = FALSE]

DestructorChannel ==
    /\ sound_pc = "destructor"
    /\ channels' = [channels EXCEPT ![sound_i] = StopChannel(@)]
    /\ sound_i' = sound_i + 1
    /\ sound_pc' = IF sound_i < c_max_channels THEN "destructor" ELSE "destructor_unlock"
    /\ UNCHANGED << sources_, driver_locks, tick_start, not_sound_vars >>

\* ~SoundEngine: driver_.UnlockChannels(); the members, global_sounds_ among
\* them, are destroyed after the body.
DestructorUnlock ==
    /\ sound_pc = "destructor_unlock"
    /\ driver_locks' = UnlockChannels(driver_locks)
    /\ sound_pc' = "destroyed"
    /\ UNCHANGED << sources_, channels, sound_i, tick_start, not_sound_vars >>

\* The driver's mixer, on the audio thread, with the channels unlocked: it
\* plays one more sample of every active channel that has samples left.
MixerPlays(channel) ==
    /\ channel.is_active
    /\ channel.src_sound_data # nullptr
    /\ channel.position_samples < SampleCount(channel)

MixerCallback ==
    /\ driver_locks = 0
    /\ \E i \in ChannelIds : MixerPlays(channels[i])
    /\ channels' = [i \in ChannelIds |->
                       IF MixerPlays(channels[i])
                       THEN [channels[i] EXCEPT !.position_samples = @ + 1]
                       ELSE channels[i]]
    /\ UNCHANGED << sources_, driver_locks, sound_pc, sound_i, tick_start, not_sound_vars >>

InitSoundSpec ==
    /\ InitMap({Level1})
    /\ InitCombat
    /\ NoMonsters
    /\ shot = [candidates |-> << >>, max_distance |-> 0, skip_monster_id |-> 0]
    /\ shot_result = NoShot

SoundEngineStep ==
    \/ SoundTickLock
    \/ SoundTickChannel
    \/ SoundTickFill
    \/ SoundTickOver
    \/ SoundTickUnlock
    \/ DestructorLock
    \/ DestructorChannel
    \/ DestructorUnlock

NextSound ==
    \/ SoundEngineStep
    \/ \E sound_number \in SoundNumbers : PlayHeadSound(sound_number)
    \/ MixerCallback

\* The thread of the game goes on with the call it is in.
SpecSound == InitSoundSpec /\ [][NextSound]_vars /\ WF_vars(SoundEngineStep)

\* ------------------------------------------------------------- claims
ProcedureOf(p) == map_data_.procedures[p]
SinceStateChange(p) == current_time - procedures_[p].last_state_change_time
\* The procedure that Tick's loop is at, in a step of the loop.
InProcedureStep(p) == pc = "procedures" /\ tick_p = p

\* C1: in every reachable state every procedure's movement_stage lies in [0,1].
C1_StageInUnitInterval ==
    \A p \in Procs :
        /\ procedures_[p].movement_stage >= 0
        /\ procedures_[p].movement_stage <= StageOne

ListedEdges ==
    { <<"None", "StartWait">>, <<"StartWait", "Movement">>, <<"Movement", "BackWait">>,
      <<"BackWait", "ReverseMovement">>, <<"ReverseMovement", "None">>,
      <<"StartWait", "None">>, <<"Movement", "ReverseMovement">> }

\* C2: whatever the operation, a procedure's movement_state changes only along
\* the listed edges; none brings a procedure that is not in None to StartWait.
C2_OnlyListedEdges ==
    [][\A p \in Procs :
          procedures_'[p].movement_state # procedures_[p].movement_state
          => << procedures_[p].movement_state, procedures_'[p].movement_state >>
                 \in ListedEdges]_vars

\* C3, as claimed: ReturnProcedure applied to any procedure in BackWait leaves
\* it in ReverseMovement with movement_stage 0.
C3_ReturnInBackWaitAlways ==
    [][\A p \in Procs, t \in Times :
          (ReturnProcedure(p, t) /\ procedures_[p].movement_state = "BackWait")
          => /\ procedures_'[p].movement_state = "ReverseMovement"
             /\ procedures_'[p].movement_stage = 0]_vars

\* C3, amended: ReturnProcedure applied to an unlocked procedure in BackWait
\* leaves it in ReverseMovement with movement_stage 0, and leaves a locked one
\* in BackWait.
C3_ReturnInBackWaitUnlocked ==
    [][\A p \in Procs, t \in Times :
          (ReturnProcedure(p, t) /\ procedures_[p].movement_state = "BackWait")
          => IF procedures_[p].locked
             THEN procedures_'[p] = procedures_[p]
             ELSE /\ procedures_'[p].movement_state = "ReverseMovement"
                  /\ procedures_'[p].movement_stage = 0
                  /\ procedures_'[p].last_state_change_time = t]_vars

\* An unlocked procedure that ReturnProcedure has just taken out of BackWait:
\* MoveMapObjects last saw it in BackWait, so no Tick made the change.
C3_Witness ==
    \E p \in Procs :
        /\ pc = "idle"
        /\ moved_state[p] = "BackWait"
        /\ ~procedures_[p].locked
        /\ procedures_[p].movement_state = "ReverseMovement"
        /\ procedures_[p].movement_stage = 0
        /\ procedures_[p].last_state_change_time = current_time

Commands(p) == ProcedureOf(p).action_commands
LockFlagsUnchanged == \A q \in Procs : procedures_'[q].locked = procedures_[q].locked

\* What the immediate commands of p leave behind: for every Lock/Unlock, Wind
\* and Death command that no later command of p overrides, its effect.
ImmediateEffects(p) ==
    \A i \in DOMAIN Commands(p) :
        LET command == Commands(p)[i]
            later == { j \in DOMAIN Commands(p) : j > i }
        IN /\ command.id \in {"Lock", "Unlock"}
              /\ (\A j \in later : Commands(p)[j].id \in {"Lock", "Unlock"}
                                   => Commands(p)[j].args[1] # command.args[1])
              => procedures_'[command.args[1]].locked = (command.id = "Lock")
           /\ command.id = "Wind"
              => \A c \in CommandCells(command) :
                    (\A j \in later : Commands(p)[j].id = "Wind"
                                      => c \notin CommandCells(Commands(p)[j]))
                    => wind_field_'[c] = << command.args[5], command.args[6] >>
           /\ command.id = "Death"
              => \A c \in CommandCells(command) :
                    (\A j \in later : Commands(p)[j].id = "Death"
                                      => c \notin CommandCells(Commands(p)[j]))
                    => death_field_'[c].damage = command.args[7] % 256

\* C4: a procedure in StartWait moves to Movement in the first Tick at which
\* the time since it entered StartWait is >= start_delay; its immediate
\* commands run on that edge and nowhere else, once per activation.
C4_ImmediateCommandsOnce ==
    /\ [](\A p \in Procs :
            /\ immediate_runs[p] <= 1
            /\ procedures_[p].movement_state = "StartWait" => immediate_runs[p] = 0
            /\ procedures_[p].movement_state \in {"Movement", "BackWait", "ReverseMovement"}
               => immediate_runs[p] = 1)
    /\ [][\A p \in Procs :
            /\ (InProcedureStep(p) /\ procedures_[p].movement_state = "StartWait")
               => IF SinceStateChange(p) >= ProcedureOf(p).start_delay_s
                  THEN /\ procedures_'[p].movement_state = "Movement"
                       /\ immediate_runs'[p] = 1
                       /\ ImmediateEffects(p)
                  ELSE /\ procedures_'[p].movement_state = "StartWait"
                       /\ immediate_runs'[p] = 0
                       /\ LockFlagsUnchanged
                       /\ UNCHANGED << static_models_, dynamic_walls_, wind_field_, death_field_ >>
            /\ (InProcedureStep(p) /\ procedures_[p].movement_state # "StartWait")
               => /\ immediate_runs'[p] <= immediate_runs[p]
                  /\ LockFlagsUnchanged
                  /\ UNCHANGED dynamic_walls_
                  /\ \A m \in DOMAIN static_models_ :
                        static_models_'[m].model_id = static_models_[m].model_id
            /\ immediate_runs'[p] > immediate_runs[p]
               => InProcedureStep(p) /\ procedures_[p].movement_state = "StartWait"]_vars

\* A procedure that waited through a Tick and has just started to move: its
\* commands have run once, and its Lock command holds.
C4_Witness ==
    \E p \in Procs :
        /\ pc \in {"procedures", "move_map_objects"}
        /\ moved_state[p] = "StartWait"
        /\ ProcedureOf(p).start_delay_s > 0
        /\ procedures_[p].movement_state = "Movement"
        /\ procedures_[p].last_state_change_time = current_time
        /\ immediate_runs[p] = 1
        /\ \E i \in DOMAIN Commands(p) :
              Commands(p)[i].id = "Lock" /\ procedures_[Commands(p)[i].args[1]].locked
        /\ \E c \in Cells : wind_field_[c] # <<0, 0>>

CarriesNonstop(p) == \E i \in DOMAIN Commands(p) : Commands(p)[i].id = "Nonstop"

\* C5: on the Movement->BackWait edge of a procedure without a Nonstop command
\* every cell covered by its Wind and Death commands is switched off; with a
\* Nonstop command no wind or death-zone cell changes.
C5_DeactivationOnBackWaitEdge ==
    [][\A p \in Procs :
          ( /\ InProcedureStep(p)
            /\ procedures_[p].movement_state = "Movement"
            /\ procedures_'[p].movement_state = "BackWait" )
          => IF CarriesNonstop(p)
             THEN UNCHANGED << wind_field_, death_field_ >>
             ELSE \A i \in DOMAIN Commands(p) :
                     /\ Commands(p)[i].id = "Wind"
                        => \A c \in CommandCells(Commands(p)[i]) : wind_field_'[c] = <<0, 0>>
                     /\ Commands(p)[i].id = "Death"
                        => \A c \in CommandCells(Commands(p)[i]) :
                              death_field_'[c].damage = 0]_vars

\* A procedure with Wind and Death commands and no Nonstop that has just
\* entered BackWait: its cells are off.
C5_Witness ==
    \E p \in Procs :
        /\ pc \in {"procedures", "move_map_objects"}
        /\ moved_state[p] = "Movement"
        /\ procedures_[p].movement_state = "BackWait"
        /\ procedures_[p].last_state_change_time = current_time
        /\ ~CarriesNonstop(p)
        /\ \E i \in DOMAIN Commands(p) :
              /\ Commands(p)[i].id = "Wind"
              /\ CommandCells(Commands(p)[i]) # {}
              /\ \A c \in CommandCells(Commands(p)[i]) : wind_field_[c] = <<0, 0>>
        /\ \E i \in DOMAIN Commands(p) :
              /\ Commands(p)[i].id = "Death"
              /\ CommandCells(Commands(p)[i]) # {}
              /\ \A c \in CommandCells(Commands(p)[i]) :
                    death_field_[c].damage = 0 /\ death_field_[c].z_top > 0

\* The switch models linked to p that show a single frame.
RestingSwitches(p) ==
    { index_element.index :
        index_element \in
            { map_index[sw.x + sw.y * c_map_size] :
                sw \in { ProcedureOf(p).linked_switches[i] :
                           i \in { j \in DOMAIN ProcedureOf(p).linked_switches :
                                     /\ ProcedureOf(p).linked_switches[j].x < c_map_size
                                     /\ ProcedureOf(p).linked_switches[j].y < c_map_size } } }
            \cap { e \in { map_index[c] : c \in Cells } :
                     /\ e.type = "StaticModel"
                     /\ static_models_[e.index].animation_state = "SingleFrame" } }

ReverseTriggered(p) ==
    \A m \in RestingSwitches(p) :
        /\ static_models_'[m].animation_state = "SingleReverseAnimation"
        /\ static_models_'[m].animation_start_time = current_time
        /\ static_models_'[m].animation_start_frame =
              models[static_models_[m].model_id + 1].frame_count - 1

\* C6, as claimed: for every back_wait, 0 included, a procedure in BackWait
\* moves to ReverseMovement in the first Tick at which the time since it
\* entered BackWait is >= back_wait, its switches triggered in reverse.
C6_BackWaitEndsForEveryBackWait ==
    [][\A p \in Procs :
          (InProcedureStep(p) /\ procedures_[p].movement_state = "BackWait")
          => IF SinceStateChange(p) >= ProcedureOf(p).back_wait_s
             THEN procedures_'[p].movement_state = "ReverseMovement" /\ ReverseTriggered(p)
             ELSE procedures_'[p].movement_state = "BackWait"]_vars

\* C6, amended: that holds for back_wait > 0; with back_wait = 0 Tick leaves
\* the procedure in BackWait.
C6_BackWaitEndsForPositiveBackWait ==
    [][\A p \in Procs :
          (InProcedureStep(p) /\ procedures_[p].movement_state = "BackWait")
          => IF ProcedureOf(p).back_wait_s > 0
                /\ SinceStateChange(p) >= ProcedureOf(p).back_wait_s
             THEN /\ procedures_'[p].movement_state = "ReverseMovement"
                  /\ procedures_'[p].movement_stage = 0
                  /\ procedures_'[p].last_state_change_time = current_time
                  /\ ReverseTriggered(p)
             ELSE /\ procedures_'[p] = procedures_[p]
                  /\ UNCHANGED static_models_]_vars

\* A procedure with back_wait > 0 that Tick has just moved from BackWait to
\* ReverseMovement, with a linked switch started in reverse at that time.
C6_Witness ==
    \E p \in Procs :
        /\ pc \in {"procedures", "move_map_objects"}
        /\ moved_state[p] = "BackWait"
        /\ ProcedureOf(p).back_wait_s > 0
        /\ procedures_[p].movement_state = "ReverseMovement"
        /\ procedures_[p].last_state_change_time = current_time
        /\ \E m \in DOMAIN static_models_ :
              /\ static_models_[m].animation_state = "SingleReverseAnimation"
              /\ static_models_[m].animation_start_time = current_time
              /\ static_models_[m].animation_start_frame > 0

\* C7: a procedure with end_delay > 0 that has been out of None for at least
\* end_delay gets the map-end callback once per activation: never a second
\* time, and at the latest in the first Tick that ends with it qualifying.
C7_MapEndOncePerActivation ==
    /\ [](\A p \in Procs : end_calls[p] <= 1)
    /\ [][(pc = "map_end" /\ pc' = "idle" /\ map_end_callback_)
          => \A p \in Procs :
                ( /\ procedures_[p].movement_state # "None"
                  /\ ProcedureOf(p).end_delay_s > 0
                  /\ current_time - active_since[p] >= ProcedureOf(p).end_delay_s )
                => end_calls'[p] = 1]_vars

\* C8: within one Tick the callback runs at most once, in the last step of
\* the Tick, with map_end_triggered_ already cleared, and that step changes
\* nothing else of the map.
C8_CallbackLastAndOnce ==
    /\ [](callback_calls <= 1 /\ ~callback_saw_flag)
    /\ [][callback_calls' > callback_calls
          => /\ pc = "map_end"
             /\ pc' = "idle"
             /\ map_end_triggered_
             /\ ~map_end_triggered_'
             /\ UNCHANGED << world_vars, absolute_action_stage, current_time >>]_vars

\* A Tick that has called the callback and returned.
C8_Witness ==
    /\ pc = "idle"
    /\ callback_calls = 1
    /\ ~map_end_triggered_
    /\ \E p \in Procs : end_calls[p] > 0

\* C9: ReturnProcedure on an unlocked procedure in StartWait puts it in None;
\* on a locked procedure, or one in None or ReverseMovement, it leaves the
\* procedure's state as it was.
C9_ReturnCancelsOrDoesNothing ==
    [][\A p \in Procs, t \in Times :
          ReturnProcedure(p, t)
          => IF \/ procedures_[p].locked
                \/ procedures_[p].movement_state \in {"None", "ReverseMovement"}
             THEN procedures_'[p] = procedures_[p]
             ELSE procedures_[p].movement_state = "StartWait"
                  => procedures_'[p] = [procedures_[p] EXCEPT !.movement_state = "None"]]_vars

\* A procedure that was waiting to start at the last Tick and has been
\* cancelled since.
C9_Witness ==
    \E p \in Procs :
        /\ pc = "idle"
        /\ moved_state[p] = "StartWait"
        /\ ~procedures_[p].locked
        /\ procedures_[p].movement_state = "None"

\* The absolute stage a Tick at time t computes for procedure p of world w.
StageAfterTick(w, p, t) == AbsoluteActionStage(TickProcedure(w, p, t).procedures_[p])

\* C10: ReturnProcedure at time t on an unlocked moving procedure with
\* speed > 0 keeps the absolute stage that a Tick at t computes, and from one
\* Tick of the reverse movement to the next the absolute stage never grows and
\* is 0 once the movement's duration has passed.
C10_ReverseStartsFromCurrentStage ==
    [][\A p \in Procs :
          /\ \A t \in Times :
                ( /\ ReturnProcedure(p, t)
                  /\ ~procedures_[p].locked
                  /\ procedures_[p].movement_state = "Movement"
                  /\ ProcedureOf(p).speed > 0 )
                => /\ procedures_'[p].movement_state = "ReverseMovement"
                   /\ StageAfterTick(World', p, t) = StageAfterTick(World, p, t)
          /\ ( /\ pc = "move_map_objects"
               /\ moved_state[p] = "ReverseMovement"
               /\ procedures_[p].movement_state \in {"ReverseMovement", "None"} )
             => /\ absolute_action_stage'[p] <= absolute_action_stage[p]
                /\ absolute_action_stage'[p] >= 0
                /\ ( ProcedureOf(p).speed > 0
                     /\ SinceStateChange(p) * ProcedureOf(p).speed >= StageOne )
                   => absolute_action_stage'[p] = 0]_vars

\* A procedure returned in the middle of its movement: it is in
\* ReverseMovement, part of the way back already.
C10_Witness ==
    \E p \in Procs :
        /\ pc = "idle"
        /\ moved_state[p] = "Movement"
        /\ ~procedures_[p].locked
        /\ procedures_[p].movement_state = "ReverseMovement"
        /\ ProcedureOf(p).speed > 0
        /\ SinceStateChange(p) * ProcedureOf(p).speed > 0
        /\ SinceStateChange(p) * ProcedureOf(p).speed < StageOne

\* The player holds every key procedure p requires.
HoldsKeys(p, keys) ==
    /\ ProcedureOf(p).red_key_required => "red" \in keys
    /\ ProcedureOf(p).green_key_required => "green" \in keys
    /\ ProcedureOf(p).blue_key_required => "blue" \in keys

Sent(number) == \E i \in DOMAIN text_messages' : text_messages'[i] = number

\* C11: TryActivateProcedure starts StartWait (stage 0, timestamp = the call's
\* time) exactly when the gate permits, the keys are held, the procedure is
\* unlocked and in None; otherwise state, stage, timestamp and lock are left
\* as they were. The call is possible in every state between Ticks.
C11_ActivationExactlyWhenAllowed ==
    /\ [](pc = "idle"
          => \A p \in Procs, gate \in BOOLEAN, keys \in KeySets :
                ENABLED TryActivateProcedure(p, current_time, gate, keys))
    /\ [][\A p \in Procs, t \in Times, gate \in BOOLEAN, keys \in KeySets :
            TryActivateProcedure(p, t, gate, keys)
            => IF /\ gate
                  /\ HoldsKeys(p, keys)
                  /\ ~procedures_[p].locked
                  /\ procedures_[p].movement_state = "None"
               THEN /\ procedures_'[p].movement_state = "StartWait"
                    /\ procedures_'[p].movement_stage = 0
                    /\ procedures_'[p].last_state_change_time = t
                    /\ procedures_'[p].locked = procedures_[p].locked
               ELSE /\ procedures_'[p].movement_state = procedures_[p].movement_state
                    /\ procedures_'[p].movement_stage = procedures_[p].movement_stage
                    /\ procedures_'[p].last_state_change_time =
                          procedures_[p].last_state_change_time
                    /\ procedures_'[p].locked = procedures_[p].locked]_vars

\* A key-gated procedure that only a player can start (its barrel is intact)
\* has just been started by a call that sent its first message.
C11_Witness ==
    /\ map_data_ = Level1
    /\ pc = "idle"
    /\ static_models_[2].model_id = 1
    /\ ProcedureOf(1).red_key_required
    /\ text_messages = << ProcedureOf(1).first_message_number >>
    /\ procedures_[1].movement_state = "StartWait"
    /\ procedures_[1].movement_stage = 0
    /\ procedures_[1].last_state_change_time = current_time
    /\ current_time > 0

\* C12, as claimed: every TryActivateProcedure call without a required key
\* on a procedure in None with a lock message sends the lock message and
\* leaves the procedure in None.
C12_NoKeyLockMessageAlways ==
    [][\A p \in Procs, t \in Times, gate \in BOOLEAN, keys \in KeySets :
          ( /\ TryActivateProcedure(p, t, gate, keys)
            /\ ~HoldsKeys(p, keys)
            /\ ProcedureOf(p).lock_message_number # 0
            /\ procedures_[p].movement_state = "None" )
          => /\ Sent(ProcedureOf(p).lock_message_number)
             /\ procedures_'[p].movement_state = "None"]_vars

\* C12, amended: that holds of the calls the player's gate permits; a call
\* the gate refuses sends nothing and also leaves the procedure in None.
C12_NoKeyLockMessagePermitted ==
    [][\A p \in Procs, t \in Times, gate \in BOOLEAN, keys \in KeySets :
          ( /\ TryActivateProcedure(p, t, gate, keys)
            /\ ~HoldsKeys(p, keys)
            /\ ProcedureOf(p).lock_message_number # 0
            /\ procedures_[p].movement_state = "None" )
          => /\ procedures_'[p].movement_state = "None"
             /\ IF gate THEN Sent(ProcedureOf(p).lock_message_number)
                ELSE text_messages' = << >>]_vars

\* An unlocked, key-gated procedure in None, just after a call without the
\* key: the lock message is the last message sent (after the first message).
C12_Witness ==
    \E p \in Procs :
        /\ pc = "idle"
        /\ ProcedureOf(p).red_key_required
        /\ ProcedureOf(p).lock_message_number # 0
        /\ ~procedures_[p].locked
        /\ procedures_[p].movement_state = "None"
        /\ text_messages # << >>
        /\ text_messages[Len(text_messages)] = ProcedureOf(p).lock_message_number

\* C13, as claimed: every TryActivateProcedure call, whatever the gate, the
\* keys and the state, sends the on-trigger message of a procedure that has
\* one, and the lock message of a locked procedure that has one.
C13_MessagesOnEveryCall ==
    [][\A p \in Procs, t \in Times, gate \in BOOLEAN, keys \in KeySets :
          TryActivateProcedure(p, t, gate, keys)
          => /\ ProcedureOf(p).on_message_number # 0
                => Sent(ProcedureOf(p).on_message_number)
             /\ (procedures_[p].locked /\ ProcedureOf(p).lock_message_number # 0)
                => Sent(ProcedureOf(p).lock_message_number)]_vars

\* C13, amended: every call the player's gate permits sends them, whatever
\* the keys and the state; a call the gate refuses sends no message.
C13_MessagesOnPermittedCall ==
    [][\A p \in Procs, t \in Times, gate \in BOOLEAN, keys \in KeySets :
          TryActivateProcedure(p, t, gate, keys)
          => IF gate
             THEN /\ ProcedureOf(p).on_message_number # 0
                     => Sent(ProcedureOf(p).on_message_number)
                  /\ (procedures_[p].locked /\ ProcedureOf(p).lock_message_number # 0)
                     => Sent(ProcedureOf(p).lock_message_number)
             ELSE text_messages' = << >>]_vars

\* A locked procedure that needs no key, just after a call: its lock message
\* was sent and it was not started.
C13_Witness ==
    \E p \in Procs :
        /\ pc = "idle"
        /\ procedures_[p].locked
        /\ ~ProcedureOf(p).red_key_required
        /\ ProcedureOf(p).first_message_number = 0
        /\ ProcedureOf(p).lock_message_number # 0
        /\ procedures_[p].movement_state = "None"
        /\ text_messages = << ProcedureOf(p).lock_message_number >>

\* C14: over the life of a map the first message of a procedure is sent at
\* most once, and first_message_printed never goes back to false.
C14_FirstMessageOnce ==
    /\ [](\A p \in Procs : first_sent[p] <= 1)
    /\ [][\A p \in Procs :
            /\ procedures_[p].first_message_printed => procedures_'[p].first_message_printed
            /\ first_sent'[p] > first_sent[p]
               => ~procedures_[p].first_message_printed
                  /\ procedures_'[p].first_message_printed]_vars

\* A procedure with a first message, just after a call that did not send it
\* because an earlier call had.
C14_Witness ==
    \E p \in Procs :
        /\ pc = "idle"
        /\ ProcedureOf(p).first_message_number # 0
        /\ ProcedureOf(p).lock_message_number # 0
        /\ first_sent[p] = 1
        /\ procedures_[p].first_message_printed
        /\ text_messages = << ProcedureOf(p).lock_message_number >>

\* The obstacles of the shot: what meets the ray and is neither excluded by
\* its category nor the monster to skip.
Obstacles ==
    { i \in DOMAIN shot.candidates :
        /\ shot.candidates[i].intersects
        /\ ~shot.candidates[i].skipped
        /\ ~( shot.candidates[i].object_type = "Monster"
              /\ shot.candidates[i].object_index = shot.skip_monster_id ) }

InReach == { i \in Obstacles : shot.candidates[i].distance < shot.max_distance }

\* C19: ProcessShot returns "no hit" when no obstacle is closer than
\* max_distance, and otherwise an obstacle of the smallest distance over all
\* categories, with its kind, index and distance.
C19_NearestObstacle ==
    shot_result # NotReturned
    => IF InReach = {}
       THEN shot_result.object_type = "None"
       ELSE \E i \in InReach :
               /\ shot_result.object_type = shot.candidates[i].object_type
               /\ shot_result.object_index = shot.candidates[i].object_index
               /\ shot_result.distance = shot.candidates[i].distance
               /\ \A j \in InReach :
                     shot.candidates[i].distance <= shot.candidates[j].distance

\* A wall 1 unit along the ray, a monster and the floor behind it: the wall
\* is returned at distance 1.
C19_Witness ==
    /\ shot_result = [object_type |-> "StaticWall", object_index |-> 0, distance |-> 1]
    /\ shot.max_distance > 2
    /\ \E i \in InReach : shot.candidates[i].object_type = "Monster"
    /\ \E i \in InReach : shot.candidates[i].object_type = "Floor"
    /\ \A i \in InReach :
          shot.candidates[i].object_type # "StaticWall" => shot.candidates[i].distance = 2

Range(seq) == { seq[i] : i \in DOMAIN seq }
Count(seq, x) == Cardinality({ i \in DOMAIN seq : seq[i] = x })
Bullets == { r \in DOMAIN rockets_ : HasInfiniteSpeed(rockets_[r]) }
FiniteRockets == { r \in DOMAIN rockets_ : ~HasInfiniteSpeed(rockets_[r]) }
InfiniteTypes ==
    { id \in 0 .. (Len(rockets_description) - 1) : rockets_description[id + 1].infinite_speed }

\* C15: a rocket of infinite speed is gone after the first rockets loop of
\* Tick that follows its Shoot, and its id is in no rocket birth and no
\* rocket death message.
C15_BulletsLiveOneTick ==
    /\ [](/\ pc \in {"mines", "map_end"} => Bullets = {}
          /\ \A r \in Bullets :
                /\ rockets_[r].rocket_id \notin Range(rockets_birth_messages_)
                /\ rockets_[r].rocket_id \notin Range(rockets_death_messages_))
    /\ [][/\ \A owner_id \in Monsters, rocket_type_id \in InfiniteTypes, t \in CombatTimes :
                Shoot(owner_id, rocket_type_id, t)
                => UNCHANGED << rockets_birth_messages_, rockets_death_messages_ >>
          /\ pc = "rockets"
             => \A r \in Bullets :
                   /\ rockets_[r].rocket_id \notin RocketIds'
                   /\ rockets_[r].rocket_id \notin Range(rockets_death_messages_')
                   /\ rockets_[r].rocket_id \notin Range(rockets_birth_messages_')]_vars

\* Every id was given to a shot of infinite speed, and the rockets loop has run.
C15_Witness ==
    /\ pc = "mines"
    /\ next_rocket_id_ > MaxShots
    /\ rockets_ = << >>
    /\ rockets_birth_messages_ = << >>
    /\ rockets_death_messages_ = << >>
    /\ dynamic_items_birth_messages_ = << >>

\* C16: a rocket of finite speed is removed exactly in the first rockets loop
\* in which it registers a hit or is older than 16 seconds; it gets one birth
\* message at Shoot and one death message when removed, so births = deaths +
\* live rockets of finite speed.
C16_FiniteRocketLifecycle ==
    /\ [](/\ Len(rockets_birth_messages_)
                = Len(rockets_death_messages_) + Cardinality(FiniteRockets)
          /\ \A id \in 1 .. MaxShots :
                /\ Count(rockets_birth_messages_, id) <= 1
                /\ Count(rockets_death_messages_, id) <= 1
                /\ Count(rockets_death_messages_, id) = 1
                   => Count(rockets_birth_messages_, id) = 1 /\ id \notin RocketIds
          /\ \A r \in FiniteRockets : Count(rockets_birth_messages_, rockets_[r].rocket_id) = 1)
    /\ [][LET scenes == scenes_met' IN
            TickRocketsLoop(scenes)
            => \A r \in FiniteRockets :
                  LET rocket == rockets_[r]
                      ends == \/ RocketHitResult(rocket, scenes[rocket.rocket_id]).object_type
                                    # "None"
                              \/ current_time - rocket.start_time > 16
                  IN IF ends
                     THEN /\ rocket.rocket_id \notin RocketIds'
                          /\ Count(rockets_death_messages_', rocket.rocket_id) = 1
                     ELSE /\ rocket \in Range(rockets_')
                          /\ Count(rockets_death_messages_', rocket.rocket_id) = 0]_vars

\* One rocket has died and another, exactly 16 seconds old, has come through
\* the rockets loop alive.
C16_Witness ==
    /\ pc = "mines"
    /\ Len(rockets_birth_messages_) = 2
    /\ Len(rockets_death_messages_) = 1
    /\ \E r \in FiniteRockets : current_time - rockets_[r].start_time = 16

\* The monster a shot is fired at: it meets the ray, is not the owner, and
\* nothing but the owner is as near or nearer.
FiredAt(rocket, scene, monster) ==
    \E i \in DOMAIN scene.candidates :
        /\ scene.candidates[i].object_type = "Monster"
        /\ scene.candidates[i].object_index = monster
        /\ monster # rocket.owner_id
        /\ scene.candidates[i].intersects
        /\ \A j \in DOMAIN scene.candidates \ {i} :
              \/ ~scene.candidates[j].intersects
              \/ scene.candidates[j].distance > scene.candidates[i].distance
              \/ ( scene.candidates[j].object_type = "Monster"
                   /\ scene.candidates[j].object_index = rocket.owner_id )

\* C17: a shot of infinite speed fired at a monster with nothing between is
\* resolved by one Hit call on that monster with the type's power, no Hit
\* call on anyone else, and no rocket birth or death message.
C17_BulletHitsTargetOnce ==
    [][LET scenes == scenes_met' IN
          TickRocketsLoop(scenes)
          => /\ Len(hit_calls') <= Len(rockets_)
             /\ \A monster \in Monsters :
                   ( /\ Len(rockets_) = 1
                     /\ HasInfiniteSpeed(rockets_[1])
                     /\ FiredAt(rockets_[1], scenes[rockets_[1].rocket_id], monster) )
                   => /\ hit_calls' =
                            << [ monster |-> monster,
                                 power |-> rockets_description[
                                               rockets_[1].rocket_type_id + 1].power ] >>
                      /\ rockets_' = << >>
                      /\ UNCHANGED << rockets_birth_messages_, rockets_death_messages_ >>]_vars

\* The only shot so far, of infinite speed and owned by monster 1, has hit
\* monster 2.
C17_Witness ==
    /\ pc = "mines"
    /\ next_rocket_id_ = 2
    /\ rockets_ = << >>
    /\ hit_calls = << [monster |-> 2, power |-> 6] >>
    /\ rockets_birth_messages_ = << >>
    /\ rockets_death_messages_ = << >>
    /\ dynamic_items_birth_messages_ = << >>

\* The links of type Destroy that stand on the cell of a static model.
DestroyLinksOn(model_index) ==
    { i \in DOMAIN map_data_.links :
        /\ map_data_.links[i].type = "Destroy"
        /\ map_data_.links[i].x = map_static_models[model_index].x
        /\ map_data_.links[i].y = map_static_models[model_index].y }

Breakable(model) ==
    /\ ModelInRange(model.model_id)
    /\ models_description[model.model_id + 1].blow_effect # 0

\* C18: a rocket hit on a breakable model lowers its health by the rocket's
\* power; the model is destroyed exactly in the hit that brings its health to
\* zero or below, and destruction advances model_id by one, resets health to
\* the new descriptor's break_limit, emits exactly one particle effect (after
\* the effect of the hit itself) and triggers each Destroy link of the model
\* exactly once.
C18_BreakableModel ==
    [][LET scenes == scenes_met' IN
          ( /\ TickRocketsLoop(scenes)
            /\ Len(rockets_) = 1
            /\ RocketHitResult(rockets_[1], scenes[rockets_[1].rocket_id]).object_type = "Model" )
          => LET index == RocketHitResult(rockets_[1],
                                          scenes[rockets_[1].rocket_id]).object_index
                 model == static_models_[index]
                 after == static_models_'[index]
                 health == model.health
                             - rockets_description[rockets_[1].rocket_type_id + 1].power
                 hit_effects == GenHitEffect(World, rockets_[1],
                                    RocketHitResult(rockets_[1], scenes[rockets_[1].rocket_id])
                                ).particles_effects_messages_
             IN Breakable(model)
                => IF health <= 0
                   THEN /\ after.model_id = model.model_id + 1
                        /\ ModelInRange(after.model_id)
                           => after.health = models_description[after.model_id + 1].break_limit
                        /\ Len(particles_effects_messages_') = Len(hit_effects) + 1
                        /\ \A q \in Procs :
                              Count(destroy_calls', q)
                                = Cardinality({ i \in DestroyLinksOn(index) :
                                                  map_data_.links[i].proc_id = q })
                   ELSE /\ after.model_id = model.model_id
                        /\ after.health = health
                        /\ particles_effects_messages_' = hit_effects
                        /\ destroy_calls' = << >>]_vars

\* Two shots of power 6 and no other: the barrel of break_limit 10 stood the
\* first and was destroyed by the second.
C18_Witness ==
    /\ pc = "mines"
    /\ next_rocket_id_ = 3
    /\ rockets_ = << >>
    /\ rockets_birth_messages_ = << >>
    /\ dynamic_items_birth_messages_ = << >>
    /\ static_models_[2].model_id = 2
    /\ static_models_[2].health = 6
    /\ Len(particles_effects_messages_) = 3
    /\ destroy_calls = << 1 >>

\* Births and deaths of dynamic items are counted once per mine.
MineMessagesOnce ==
    /\ Len(dynamic_items_birth_messages_)
          = Len(dynamic_items_death_messages_) + Len(mines_)
    /\ \A id \in 1 .. MaxShots :
          /\ Count(dynamic_items_birth_messages_, id) <= 1
          /\ Count(dynamic_items_death_messages_, id) <= 1
          /\ Count(dynamic_items_death_messages_, id) = 1
             => Count(dynamic_items_birth_messages_, id) = 1 /\ id \notin MineIds
    /\ \A id \in MineIds : Count(dynamic_items_birth_messages_, id) = 1

\* The mines loop removes a mine, with one death message, exactly when it is
\* too old or a monster activates it; at_limit tells whether an age of
\* exactly 30 seconds is too old.
MinesLoopRemoves(at_limit) ==
    \A near \in (IF pc = "mines" THEN [MineIds -> BOOLEAN] ELSE {}) :
        TickMines(near)
        => \A m \in DOMAIN mines_ :
              LET mine == mines_[m]
                  age == current_time - mine.planting_time
                  too_old == IF at_limit THEN age >= 30 ELSE age > 30
              IN IF too_old \/ (age >= mines_preparation_time_s /\ near[mine.id])
                 THEN /\ mine.id \notin MineIds'
                      /\ Count(dynamic_items_death_messages_', mine.id) = 1
                 ELSE /\ mine \in Range(mines_')
                      /\ Count(dynamic_items_death_messages_', mine.id) = 0

\* C20 as stated: a mine planted at t is present until a monster activates it
\* or a Tick's time is at or past t + 30 s, and has exactly one dynamic-item
\* birth and one death.
C20_MineGoneAtLimit == []MineMessagesOnce /\ [][MinesLoopRemoves(TRUE)]_vars

\* C20: a mine planted at t is present until a monster activates it or a
\* Tick's time is past t + 30 s (at exactly t + 30 s it stays), and has
\* exactly one dynamic-item birth and one death.
C20_MineGonePastLimit == []MineMessagesOnce /\ [][MinesLoopRemoves(FALSE)]_vars

\* A mine exactly 30 seconds old has come through the mines loop.
C20_Witness ==
    /\ pc = "map_end"
    /\ \E m \in DOMAIN mines_ : current_time - mines_[m].planting_time = 30

\* The entries of the monster list that are player spawn points, and those
\* of them with the lowest number.
SpawnPoints == { i \in DOMAIN map_monsters : map_monsters[i].monster_id = 0 }
LowestSpawnPoints ==
    { i \in SpawnPoints :
        \A j \in SpawnPoints :
            map_monsters[i].difficulty_flags <= map_monsters[j].difficulty_flags }

\* C25: SpawnPlayer puts the player on the lowest-numbered player spawn point
\* of the monster list, whatever non-player monsters the list holds, or at
\* (0,0,4) when the list has no spawn point, and resets the player's
\* activation cooldown.
C25_SpawnAtLowestSpawnPoint ==
    [][\A player \in Players :
          SpawnPlayer(player) =>
              /\ IF SpawnPoints = {}
                 THEN entities'[player].pos = Pos(0, 0, 4 * PosScale)
                 ELSE \E i \in LowestSpawnPoints :
                          /\ entities'[player].pos.x = map_monsters[i].pos.x
                          /\ entities'[player].pos.y = map_monsters[i].pos.y
              /\ entities'[player].activated_procedure = 0]_vars

\* C28: the ids handed out to monsters and players are the successive values
\* of one counter: never 0, strictly increasing in the order they were handed
\* out, the last one equal to the counter; every id handed out is a key of
\* the monster container, and every player id is a key of both containers
\* and names the same player object in both.
C28_EntityIds ==
    /\ \A i \in DOMAIN spawn_ids : spawn_ids[i] # 0
    /\ \A i, j \in DOMAIN spawn_ids : i < j => spawn_ids[i] < spawn_ids[j]
    /\ spawn_ids # << >> => spawn_ids[Len(spawn_ids)] = next_monster_id_
    /\ DOMAIN monsters_ = Range(spawn_ids)
    /\ DOMAIN players_ \subseteq DOMAIN monsters_
    /\ \A id \in DOMAIN players_ :
          players_[id] \in Players /\ monsters_[id] = players_[id]
    /\ \A id \in DOMAIN monsters_ \ DOMAIN players_ : monsters_[id] \notin Players

\* Two monsters were spawned at construction and two players joined.
C28_Witness ==
    /\ Len(spawn_ids) = 4
    /\ Cardinality(DOMAIN players_) = 2
    /\ Cardinality(DOMAIN monsters_) = 4

\* The pair of objects that the next pass of the collision loop visits, what
\* the pass corrects and how far an object is moved by a step.
FirstOfPair == monsters_[tick_pairs[1][1]]
SecondOfPair == monsters_[tick_pairs[1][2]]
Interpenetrate ==
    /\ pc = "collide_monsters" /\ tick_pairs # << >>
    /\ Collide(entities, FirstOfPair, SecondOfPair)
    /\ SquareDistance(entities[FirstOfPair].pos, entities[SecondOfPair].pos)
           < (monsters_description[entities[FirstOfPair].monster_id + 1].w_radius
              + monsters_description[entities[SecondOfPair].monster_id + 1].w_radius)
             * (monsters_description[entities[FirstOfPair].monster_id + 1].w_radius
                + monsters_description[entities[SecondOfPair].monster_id + 1].w_radius)
Correction ==
    monsters_description[entities[FirstOfPair].monster_id + 1].w_radius
    + monsters_description[entities[SecondOfPair].monster_id + 1].w_radius
    - Length([x |-> entities[SecondOfPair].pos.x - entities[FirstOfPair].pos.x,
              y |-> entities[SecondOfPair].pos.y - entities[FirstOfPair].pos.y])
Moved(object) ==
    Length([x |-> entities'[object].pos.x - entities[object].pos.x,
            y |-> entities'[object].pos.y - entities[object].pos.y])
IsPlayer(object) == entities[object].monster_id = 0

\* A step of the pass gives the whole correction of a pair of a player and a
\* monster to `whole` (TRUE: the monster, FALSE: the player) and nothing to
\* the other, and half of it to each of two monsters.
PairCorrected(monster_moves) ==
    Interpenetrate =>
        LET a == FirstOfPair
            b == SecondOfPair
        IN  /\ (IsPlayer(a) /\ ~IsPlayer(b)) =>
                   /\ Moved(a) = (IF monster_moves THEN 0 ELSE Correction)
                   /\ Moved(b) = (IF monster_moves THEN Correction ELSE 0)
            /\ (~IsPlayer(a) /\ IsPlayer(b)) =>
                   /\ Moved(a) = (IF monster_moves THEN Correction ELSE 0)
                   /\ Moved(b) = (IF monster_moves THEN 0 ELSE Correction)
            /\ (~IsPlayer(a) /\ ~IsPlayer(b)) =>
                   /\ 2 * Moved(a) = Correction
                   /\ 2 * Moved(b) = Correction

\* C21: in the pass that collides monsters together, the whole correction of
\* an interpenetrating pair of a player and a monster goes to the monster and
\* the player is not moved, whichever is visited first; two monsters get half
\* of the correction each.
C21_MonsterAbsorbsCorrection == [][PairCorrected(TRUE)]_vars

\* C21, amended: the whole correction of such a pair goes to the player and
\* the monster is not moved, whichever is visited first; two monsters get
\* half of the correction each.
C21_PlayerAbsorbsCorrection == [][PairCorrected(FALSE)]_vars

\* The running pass has corrected a pair with the player first and a pair
\* with the monster first.
C21_Witness ==
    /\ \E k \in DOMAIN pass_corrections :
          monsters_[pass_corrections[k][1]] \in Players
          /\ monsters_[pass_corrections[k][2]] \notin Players
    /\ \E k \in DOMAIN pass_corrections :
          monsters_[pass_corrections[k][1]] \notin Players
          /\ monsters_[pass_corrections[k][2]] \in Players

\* The geometry of the dynamic walls and static models in the world w.
Geometry(w) ==
    [ walls |-> [d \in DOMAIN w.dynamic_walls_ |->
                    [vert_pos |-> w.dynamic_walls_[d].vert_pos, z |-> w.dynamic_walls_[d].z]],
      models |-> [m \in DOMAIN w.static_models_ |->
                    [pos |-> w.static_models_[m].pos, angle |-> w.static_models_[m].angle]] ]

\* C26: when a Tick returns, the geometry of the dynamic walls and static
\* models is what the level's base geometry and the procedures' current
\* states give (so an object whose procedures are all at absolute stage 0
\* is at its base position), whatever the geometry was before.
C26_GeometryFromProcedureStates ==
    [][TickMapEnd => Geometry(World') = Geometry(MoveMapObjects(World'))]_vars

\* What the queue grew by in this step.
Added(queue_before, queue_after) ==
    SubSeq(queue_after, Len(queue_before) + 1, Len(queue_after))

\* C30: a mine detonation applies no damage. In the mines loop of a Tick no
\* Hit is issued and no monster or player changes; every activated mine adds
\* one explosion particle, one map-event sound and one dynamic-item death
\* message and is removed; a mine removed by age adds the death message only.
C30_MineDetonationEffects ==
    [][\A near \in (IF pc = "mines" THEN [MineIds -> BOOLEAN] ELSE {}) :
          TickMines(near)
          => LET activated == { m \in DOMAIN mines_ :
                                  /\ current_time - mines_[m].planting_time <= max_mine_age_s
                                  /\ current_time - mines_[m].planting_time
                                        >= mines_preparation_time_s
                                  /\ near[mines_[m].id] }
                 aged == { m \in DOMAIN mines_ :
                             current_time - mines_[m].planting_time > max_mine_age_s }
             IN /\ hit_calls' = << >>
                /\ entities' = entities
                /\ Added(particles_effects_messages_, particles_effects_messages_')
                      = [i \in 1 .. Cardinality(activated) |-> "Explosion"]
                /\ Len(map_events_sounds_messages_')
                      = Len(map_events_sounds_messages_) + Cardinality(activated)
                /\ Range(Added(dynamic_items_death_messages_, dynamic_items_death_messages_'))
                      = { mines_[m].id : m \in activated \cup aged }
                /\ Len(dynamic_items_death_messages_')
                      = Len(dynamic_items_death_messages_) + Cardinality(activated \cup aged)
                /\ MineIds' = MineIds \ { mines_[m].id : m \in activated \cup aged }]_vars

\* The mines loop has run over two mines: a monster activated one, the other
\* was removed by age.
C30_Witness ==
    /\ pc = "monsters"
    /\ Len(dynamic_items_death_messages_) = 2
    /\ Len(mines_) = 0
    /\ Count(particles_effects_messages_, "Explosion") = 1
    /\ Count(map_events_sounds_messages_, << "", 40 >>) = 1

\* The simulation state: everything but the event queues and the sender.
SimulationState ==
    << map_vars, rockets_, next_rocket_id_, mines_, hit_calls, destroy_calls, scenes_met,
       shot_vars, entity_vars, pass_vars >>

\* The events now queued, as << queue, index >>.
Queued ==
    { << queue, i >> : queue \in DOMAIN EventQueues, i \in 1 .. (2 * MaxShots + 8) }
      \cap UNION { { << queue, i >> : i \in 1 .. Len(EventQueues[queue]) } :
                     queue \in DOMAIN EventQueues }

\* C23: ClearUpdateEvents empties each of the ten event queues and changes
\* nothing else; SendUpdateMessages changes no simulation state and leaves
\* every queue as it is, handing every queued event to the sender once more:
\* so an event is sent twice exactly when two SendUpdateMessages calls with
\* no ClearUpdateEvents between them find it queued, and no event is sent
\* more often than SendUpdateMessages was called since the last clearing.
C23_SendAndClear ==
    /\ [][ClearUpdateEvents
            => /\ \A queue \in DOMAIN EventQueues : EventQueues'[queue] = << >>
               /\ UNCHANGED SimulationState]_vars
    /\ [][SendUpdateMessages
            => /\ EventQueues' = EventQueues
               /\ UNCHANGED SimulationState
               /\ \A e \in Queued :
                     Delivered(deliveries', e[1], e[2])
                       = Delivered(deliveries, e[1], e[2]) + 1]_vars
    /\ [](\A e \in Queued : Delivered(deliveries, e[1], e[2]) <= sends_since_clear)

\* Every queue that Shoot, PlantMine and Tick fill holds an event, and so
\* does one of the monsters' queues; SendUpdateMessages ran twice with no
\* ClearUpdateEvents in between, and events queued before the first of the
\* two were sent twice, events queued between the two once.
C23_Witness ==
    /\ \A queue \in { "sprite_effects_", "rockets_birth_messages_",
                       "rockets_death_messages_", "dynamic_items_birth_messages_",
                       "dynamic_items_death_messages_", "particles_effects_messages_",
                       "map_events_sounds_messages_" } : EventQueues[queue] # << >>
    /\ MonsterEvents > 0
    /\ sends_since_clear = 2
    /\ \E e \in Queued : Delivered(deliveries, e[1], e[2]) = 2
    /\ \E e \in Queued : Delivered(deliveries, e[1], e[2]) = 1
\* The case of a Floor link i for a player at pos: the circle overlaps the
\* link's tile, the gate permits, the keys are held, the procedure is unlocked
\* and in None.
FloorLinkCase(i, pos, call) ==
    LET link == map_data_.links[i]
    IN  /\ link.type = "Floor"
        /\ CircleIntersectsWithSquare(pos, player_radius, link.x, link.y)
        /\ call.gates[i]
        /\ HaveNecessaryKeys(map_data_.procedures[link.proc_id], call.keys)
        /\ ~procedures_[link.proc_id].locked
        /\ procedures_[link.proc_id].movement_state = "None"

\* A link j that calls the procedure of the Floor link i back later in the
\* same call: a ReturnFloor link of an overlapped tile that the floors loop
\* reaches after i, or a Return link of a dynamic wall or a model in reach.
ReturnedLater(i, pos, garbage) ==
    \E j \in DOMAIN map_data_.links :
        LET link == map_data_.links[i]
            other == map_data_.links[j]
            element == map_index[other.x + other.y * c_map_size]
        IN  /\ other.proc_id = link.proc_id
            /\ \/ /\ other.type = "ReturnFloor"
                   /\ CircleIntersectsWithSquare(pos, player_radius, other.x, other.y)
                   /\ \/ other.x > link.x
                      \/ other.x = link.x /\ other.y > link.y
                      \/ other.x = link.x /\ other.y = link.y /\ j > i
               \/ /\ other.type = "Return"
                   /\ \/ /\ element.type = "DynamicWall"
                         /\ TouchesDynamicWall(World, element.index, pos, garbage)
                      \/ /\ element.type = "StaticModel"
                         /\ TouchesModel(World, element.index, pos)

InsideMap(pos) ==
    /\ FloorTile(pos.x) \in 0 .. (c_map_size - 1)
    /\ FloorTile(pos.y) \in 0 .. (c_map_size - 1)

\* The step is the call of ProcessPlayerPosition that walk' records.
PlayerPositionStep(garbage) ==
    /\ walk' # << >>
    /\ ProcessPlayerPosition(current_time, walk'[1].id, walk'[1].gates, walk'[1].keys,
                             garbage)

TickPhases ==
    { << "idle", "procedures" >>, << "procedures", "move_map_objects" >>,
      << "move_map_objects", "static_models" >>, << "static_models", "rockets" >>,
      << "rockets", "mines" >>, << "mines", "monsters" >>,
      << "monsters", "collide_with_map" >>, << "collide_with_map", "collide_monsters" >>,
      << "collide_monsters", "map_end" >>, << "map_end", "idle" >> }

\* C22: inside every Tick the phases follow one another in the order
\* procedures, MoveMapObjects, static models, rockets, mines, monsters,
\* monster-vs-map, monster-vs-monster, map-end callback; the procedure phase
\* has advanced every procedure when it ends; MoveMapObjects recomputes the
\* geometry from the procedure states that phase left, and no later phase
\* changes the geometry or runs the procedure phase again, so the rocket hit
\* tests and the collisions of the Tick meet the geometry of its transitions.
C22_PhaseOrder ==
    /\ [][pc' # pc => << pc, pc' >> \in TickPhases]_vars
    /\ [][pc = "procedures" /\ pc' # pc => tick_p = Len(map_data_.procedures)]_vars
    /\ [][pc = "procedures" /\ pc' = pc => tick_p' = tick_p + 1]_vars
    /\ [][pc = "move_map_objects"
          => (Geometry(World') = Geometry(MoveMapObjects(World))
              /\ procedures_' = procedures_)]_vars
    /\ [][(pc \in { "static_models", "rockets", "mines", "monsters", "collide_with_map",
                    "collide_monsters", "map_end" })
          => Geometry(World') = Geometry(World)]_vars
    /\ [][(pc \in { "monsters", "collide_with_map", "collide_monsters", "map_end" })
          => procedures_' = procedures_ /\ rockets_' = rockets_ /\ mines_' = mines_]_vars

\* The collisions of a Tick whose procedure phase brought the door to
\* BackWait: the wall is lifted, a rocket is in flight and the player stands
\* by the wall.
C22_Witness ==
    /\ pc = "collide_monsters"
    /\ procedures_[2].movement_state = "BackWait"
    /\ procedures_[2].last_state_change_time = current_time
    /\ dynamic_walls_[1].z > 0
    /\ rockets_ # << >>
    /\ \E id \in DOMAIN players_ : entities[monsters_[id]].pos.y > PosScale
\* The flags with which a wall is passed over.
InertTexture == [gso |-> << TRUE, TRUE >>]

\* C27: out-of-range references are inert: whatever lies past the end of the
\* wall-texture table, the monster-vs-map pass of a Tick does what it does
\* when every wall with an out-of-range texture_id is passed over.
C27_OutOfRangeIsInert ==
    [][\A garbage \in Garbage :
          TickCollideWithMap(garbage)
          => entities' = CollideWithMapLoop(World, tick_order, 1, InertTexture).entities]_vars
\* C29 as stated: in a Tick in which the nearest hit of a reflecting rocket
\* is the floor, the rocket stays live, its z is not negative and its vertical
\* speed is not negative; every other hit removes it.
C29_FloorHitKeepsRocket ==
    \A i \in DOMAIN grenade :
        LET rocket == grenade[i]
            floor == rocket.found.object_type = "Floor" /\ rocket.found.object_index = 0
        IN  /\ floor => rocket.live /\ rocket.z >= 0 /\ rocket.speed_z >= 0
            /\ rocket.found.object_type # "None" /\ ~floor => ~rocket.live

\* C29 amended: in such a Tick the rocket is removed only for its age, its z
\* is not negative, and its vertical speed is not negative if its new position
\* was below the floor; otherwise it ends the Tick on the floor or less than
\* c_length_eps above it and keeps its speed. Every other hit removes it.
C29_FloorHitDoesNotRemoveRocket ==
    \A i \in DOMAIN grenade :
        LET rocket == grenade[i]
            floor == rocket.found.object_type = "Floor" /\ rocket.found.object_index = 0
        IN  /\ floor => /\ rocket.live = (rocket.time_delta_s <= max_rocket_flight_s)
                        /\ rocket.z >= 0
                        /\ rocket.reflected => rocket.speed_z >= 0
                        /\ ~rocket.reflected => rocket.z < c_length_eps
            /\ rocket.found.object_type # "None" /\ ~floor => ~rocket.live

\* The rocket went through the floor, was put on it and flies up again.
C29_Witness ==
    /\ grenade # << >>
    /\ grenade[1].found.object_type = "Floor"
    /\ grenade[1].found.object_index = 0
    /\ grenade[1].reflected
    /\ grenade[1].live
    /\ grenade[1].z = 0
    /\ grenade[1].speed_z > 0

\* The z CollideWithMap has resolved for a monster before the clamp to floor
\* and ceiling: the models pull it up or down, the walls leave it alone.
ResolvedZ(object) ==
    LET monster == entities[object]
        radius == IF monster.monster_id = 0 THEN player_radius
                  ELSE monsters_description[monster.monster_id + 1].w_radius
    IN  CollideWithModelsFrom(World,
                              [pos |-> [x |-> monster.pos.x, y |-> monster.pos.y],
                               in_z |-> monster.pos.z, new_z |-> monster.pos.z,
                               on_floor |-> FALSE],
                              1, player_height, radius).new_z

Noclipping(object) == entities[object].monster_id = 0 /\ entities[object].noclip

\* C31: the map-collision pass of a Tick leaves every non-noclipping entity
\* with z >= 0 and z + height <= walls_height, on the floor with z = 0
\* whenever its resolved z was <= 0; a noclipping player keeps its position
\* and its on-floor flag.
C31_FloorAndCeiling ==
    [][(pc = "collide_with_map" /\ pc' = "collide_monsters")
       => \A id \in DOMAIN monsters_ :
             LET object == monsters_[id]
             IN  IF Noclipping(object)
                 THEN /\ entities'[object].pos = entities[object].pos
                      /\ entities'[object].on_floor = entities[object].on_floor
                 ELSE /\ entities'[object].pos.z >= 0
                      /\ entities'[object].pos.z + player_height <= walls_height
                      /\ ResolvedZ(object) <= 0
                            => /\ entities'[object].on_floor
                               /\ entities'[object].pos.z = 0]_vars

\* After the pass: a noclipping player below the floor or with the head
\* above the ceiling beside a monster that was clamped to the floor or to
\* the ceiling.
C31_Witness ==
    /\ pc = "collide_monsters"
    /\ \E id \in DOMAIN monsters_ :
          /\ Noclipping(monsters_[id])
          /\ entities[monsters_[id]].pos.z \in {-512, 6144}
    /\ \E id \in DOMAIN monsters_ :
          /\ ~Noclipping(monsters_[id])
          /\ \/ entities[monsters_[id]].pos.z = 0 /\ entities[monsters_[id]].on_floor
             \/ entities[monsters_[id]].pos.z = walls_height - player_height

\* C32: a procedure with speed == 0 moves at once: the iteration of Tick's
\* loop that finds it in Movement leaves it in BackWait, and the one that
\* finds it in ReverseMovement leaves it in None, whatever the time since
\* it entered the state.
C32_InstantMovement ==
    [][\A p \in Procs :
          (InProcedureStep(p) /\ ProcedureOf(p).speed = 0)
          => /\ procedures_[p].movement_state = "Movement"
                  => procedures_'[p].movement_state = "BackWait"
             /\ procedures_[p].movement_state = "ReverseMovement"
                  => procedures_'[p].movement_state = "None"]_vars

\* A procedure without speed that reached BackWait at the very time at which
\* it entered Movement (its start delay after its activation).
C32_Witness ==
    \E p \in Procs :
       /\ ProcedureOf(p).speed = 0
       /\ procedures_[p].movement_state = "BackWait"
       /\ ProcedureOf(p).start_delay_s > 0
       /\ procedures_[p].last_state_change_time
             = active_since[p] + ProcedureOf(p).start_delay_s

\* The longest time a cycle of the procedure takes when each of its four
\* transitions is late by the longest Tick.
CycleBound(procedure) ==
    LET movement == IF procedure.speed > 0
                    THEN (StageOne + procedure.speed - 1) \div procedure.speed ELSE 0
    IN  procedure.start_delay_s + procedure.back_wait_s + 2 * movement + 4 * (MaxDelta + 1)

LifeProcs == UNION { DOMAIN level.procedures : level \in LifeLevels }

\* The procedure is in StartWait early enough for its cycle to end by LifeEnd.
EnteredStartWait(p) ==
    /\ p \in Procs
    /\ procedures_[p].movement_state = "StartWait"
    /\ current_time + CycleBound(ProcedureOf(p)) <= LifeEnd

BackInNone(p) == p \in Procs /\ procedures_[p].movement_state = "None"

\* C33: under repeated Ticks with advancing time every procedure that has
\* entered StartWait reaches None again.
C33_EveryActivationCompletes ==
    \A p \in LifeProcs : EnteredStartWait(p) ~> BackInNone(p)

\* C33, amended: that holds for a procedure with back_wait > 0; one with
\* back_wait = 0 reaches BackWait and stays there.
C33_ActivationWithBackWaitCompletes ==
    \A p \in LifeProcs :
       /\ (EnteredStartWait(p) /\ ProcedureOf(p).back_wait_s > 0) ~> BackInNone(p)
       /\ (EnteredStartWait(p) /\ ProcedureOf(p).back_wait_s = 0)
             ~> [](p \in Procs /\ procedures_[p].movement_state = "BackWait")

\* A procedure back in None since the end of a reverse movement.
C33_Witness ==
    \E p \in Procs :
       /\ procedures_[p].movement_state = "None"
       /\ procedures_[p].last_state_change_time
             >= ProcedureOf(p).start_delay_s + ProcedureOf(p).back_wait_s
       /\ procedures_[p].last_state_change_time > 0

\* The sequence holds every element of the set once and nothing else.
EachOnce(seq, set) == Len(seq) = Cardinality(set) /\ Range(seq) = set

\* The rockets loop took up every rocket of the vector once; the vector it
\* leaves holds, once each and as they were, the rockets that had no reason
\* to go.
RocketsLoopVisitsAll ==
    (pc = "rockets" /\ pc' = "mines")
    => /\ EachOnce(loop_visits', RocketIds)
       /\ EachOnce(rockets_',
                   { rockets_[r] : r \in
                       { r \in DOMAIN rockets_ :
                           ~RemoveRocket(rockets_[r],
                                         RocketHitResult(rockets_[r],
                                                         scenes_met'[rockets_[r].rocket_id]),
                                         current_time) } })

\* The mines loop took up every mine of the vector once; the mines it leaves
\* and the mines it reported dead are, once each, the mines it found.
MinesLoopVisitsAll ==
    (pc = "mines" /\ pc' = "monsters")
    => /\ EachOnce(loop_visits', MineIds)
       /\ Range(mines_') \subseteq Range(mines_)
       /\ EachOnce(mines_', Range(mines_'))
       /\ \A m \in DOMAIN mines_ :
             Count(mines_', mines_[m])
             + Count(dynamic_items_death_messages_', mines_[m].id)
             = 1 + Count(dynamic_items_death_messages_, mines_[m].id)

\* C34: one Tick's rockets loop processes every rocket that was live at its
\* start exactly once and its mines loop every mine exactly once, whichever
\* of them the swap-with-last removal takes out on the way, and a removal
\* neither removes nor duplicates another element.
C34_EveryRocketAndMineOnce == [][RocketsLoopVisitsAll /\ MinesLoopVisitsAll]_vars

\* The rockets loop has removed the first of two rockets and then processed
\* the second, which the removal had moved into the first's place.
C34_Witness ==
    /\ pc = "mines"
    /\ Len(loop_visits) >= 2
    /\ Len(rockets_) = Len(loop_visits) - 1
    /\ rockets_[1].rocket_id = loop_visits[Len(loop_visits)]

\* Where a procedure is in its cycle.
MovementOf(procedure_state) ==
    << procedure_state.movement_state, procedure_state.movement_stage,
       procedure_state.last_state_change_time >>

\* Tick's iteration for a procedure takes it where it would take it with the
\* lock flag the other way round.
TickIgnoresLock ==
    \A p \in Procs :
       InProcedureStep(p)
       => MovementOf(procedures_'[p])
            = MovementOf(TickProcedure([World EXCEPT !.procedures_[p].locked = ~@],
                                       p, current_time).procedures_[p])

\* A model with a Destroy link to the procedure is destroyed in this step.
DestroyedFor(p) ==
    \E m \in DOMAIN static_models_ :
       /\ static_models_'[m].model_id # static_models_[m].model_id
       /\ \E i \in DestroyLinksOn(m) : map_data_.links[i].proc_id = p

\* What the hits of the rockets loop do to a locked procedure: a destroyed
\* model unlocks and starts it, a shot leaves it alone.
HitsOnLocked ==
    \A p \in Procs :
       (pc = "rockets" /\ pc' # "rockets" /\ procedures_[p].locked)
       => IF DestroyedFor(p)
          THEN /\ ~procedures_'[p].locked
               /\ MovementOf(procedures_'[p]) = << "StartWait", 0, current_time >>
          ELSE procedures_'[p] = procedures_[p]

DeathTicksUpTo(t) == (death_ticks_per_second * t) \div time_units_per_s

\* The monster of the run stands in the band of a cell that does damage.
InDeathBand(run) ==
    LET cell == run.death_field_[0]
    IN  /\ run.pos.x \in 0 .. (PosScale - 1) /\ run.pos.y \in 0 .. (PosScale - 1)
        /\ cell.damage > 0
        /\ run.pos.z * 64 <= cell.z_top * PosScale
        /\ (run.pos.z + player_height) * 64 >= cell.z_bottom * PosScale

\* C36: over consecutive Ticks from t0 to t1 the death ticks sum to
\* floor(rate * t1) - floor(rate * t0), however the interval is cut; a
\* monster that stays in the band of a death-zone cell is hit for cell.damage
\* times that sum, and not at all in a Tick without a death tick.
C36_DeathTicksTelescope ==
    \A i \in DOMAIN death_run :
       LET run == death_run[i]
       IN  /\ run.ticks = DeathTicksUpTo(run.time) - DeathTicksUpTo(run.t0)
           /\ InDeathBand(run) => run.damage = run.death_field_[0].damage * run.ticks
           /\ ~InDeathBand(run) => run.damage = 0
           /\ run.last_ticks = 0 => run.last_damage = 0

\* A monster in the band was hit in some Ticks and has just come through a
\* Tick of positive length without a death tick.
C36_Witness ==
    /\ death_run # << >>
    /\ InDeathBand(death_run[1])
    /\ death_run[1].damage >= 2 * death_run[1].death_field_[0].damage
    /\ death_run[1].last_ticks = 0
    /\ death_run[1].time % time_units_per_s = 1
    /\ death_run[1].t0 % time_units_per_s # 0

\* The static models at the valid switch positions of the procedure.
LinkedSwitchModels(p) ==
    { map_index[sw.x + sw.y * c_map_size].index :
        sw \in { s \in Range(ProcedureOf(p).linked_switches) :
                  /\ s.x < c_map_size /\ s.y < c_map_size
                  /\ map_index[s.x + s.y * c_map_size].type = "StaticModel" } }

SwitchModels == DOMAIN map_static_models
SingleAnimations == {"SingleAnimation", "SingleReverseAnimation"}
HasFrames(m) == static_models_[m].model_id < Len(models)
LastFrame(m) == models[static_models_[m].model_id + 1].frame_count - 1

\* Tick's step for the procedure p starts its movement or its reverse movement.
SwitchTrigger(p) ==
    /\ InProcedureStep(p)
    /\ procedures_'[p].movement_state \in {"Movement", "ReverseMovement"}
    /\ procedures_'[p].movement_state # procedures_[p].movement_state

\* A trigger starts the animation of a linked model that shows a single frame
\* and leaves every other linked model as it is.
TriggerOnlyInSingleFrame ==
    \A p \in Procs :
       SwitchTrigger(p) =>
          \A m \in LinkedSwitchModels(p) :
             IF static_models_[m].animation_state = "SingleFrame"
             THEN /\ static_models_'[m].animation_state =
                        (IF procedures_'[p].movement_state = "Movement"
                         THEN "SingleAnimation" ELSE "SingleReverseAnimation")
                  /\ static_models_'[m].animation_start_time = current_time
             ELSE static_models_'[m] = static_models_[m]

\* Tick's step for the static models ends a single animation on the last
\* frame and a reverse one on the frame 0, and shows the frame a resting
\* model rests on.
RestsOnEndFrame ==
    pc = "static_models" =>
       \A m \in SwitchModels :
          /\ (/\ static_models_[m].animation_state \in SingleAnimations
              /\ static_models_'[m].animation_state # static_models_[m].animation_state)
             => /\ static_models_'[m].animation_state = "SingleFrame"
                /\ static_models_'[m].animation_start_frame =
                      (IF static_models_[m].animation_state = "SingleAnimation"
                       THEN LastFrame(m) ELSE 0)
          /\ static_models_[m].animation_state = "SingleFrame"
             => /\ static_models_'[m].animation_state = "SingleFrame"
                /\ static_models_'[m].current_animation_frame
                      = static_models_[m].animation_start_frame

\* A model in a single animation that began early enough to end by SwitchEnd.
InSingleAnimation(m) ==
    /\ static_models_[m].animation_state \in SingleAnimations
    /\ static_models_[m].animation_start_time + Len(models) <= SwitchEnd

\* Tick's step leaves a model without frames in its single animation, showing
\* the frame 0.
NoFramesNoReturn ==
    pc = "static_models" =>
       \A m \in SwitchModels :
          (static_models_[m].animation_state \in SingleAnimations /\ ~HasFrames(m))
          => /\ static_models_'[m].animation_state = static_models_[m].animation_state
             /\ static_models_'[m].current_animation_frame = 0

\* C37: a trigger of a procedure starts the animation of a linked switch
\* model only while the model is in SingleFrame and is ignored while it is in
\* SingleAnimation or SingleReverseAnimation; under repeated Ticks with
\* advancing time every model in one of these two states returns to
\* SingleFrame, on its last frame or on the frame 0.
C37_SwitchReturnsToSingleFrame ==
    /\ [][TriggerOnlyInSingleFrame /\ RestsOnEndFrame]_vars
    /\ \A m \in SwitchModels :
          InSingleAnimation(m) ~> (static_models_[m].animation_state = "SingleFrame")

\* C37, amended: the return to SingleFrame is that of a model whose model_id
\* lies within models; Tick leaves any other model in its single animation.
C37_SwitchWithFramesReturns ==
    /\ [][TriggerOnlyInSingleFrame /\ RestsOnEndFrame /\ NoFramesNoReturn]_vars
    /\ \A m \in SwitchModels :
          (InSingleAnimation(m) /\ HasFrames(m))
             ~> (static_models_[m].animation_state = "SingleFrame")

\* The reverse movement of a door began in this Tick while its switch was in
\* the single animation that the door's movement had begun: the model went on
\* with it and the same Tick ended it on the last frame.
C37_Witness ==
    \E p \in Procs : \E m \in LinkedSwitchModels(p) :
       /\ pc = "idle"
       /\ procedures_[p].movement_state = "ReverseMovement"
       /\ procedures_[p].last_state_change_time = current_time
       /\ static_models_[m].animation_start_time < current_time
       /\ HasFrames(m)
       /\ static_models_[m].animation_state = "SingleFrame"
       /\ static_models_[m].animation_start_frame = LastFrame(m)
       /\ LastFrame(m) > 0


MessagePlaces(messages, kind, rocket_id) ==
    { i \in DOMAIN messages : messages[i] = RocketMessage(kind, rocket_id) }
KindRank(kind) ==
    CASE kind = "RocketBirth" -> 1 [] kind = "RocketDeath" -> 2 [] kind = "RocketState" -> 3

\* The rocket messages of the last SendUpdateMessages: births, then deaths,
\* then states; no state of a rocket whose death is among them; the birth of
\* a rocket before its death.
FlushInOrder ==
    /\ \A i, j \in DOMAIN sender.last :
          i < j => KindRank(sender.last[i].kind) <= KindRank(sender.last[j].kind)
    /\ \A id \in 1 .. MaxShots :
          /\ MessagePlaces(sender.last, "RocketDeath", id) # {}
             => MessagePlaces(sender.last, "RocketState", id) = {}
          /\ \A b \in MessagePlaces(sender.last, "RocketBirth", id) :
                \A d \in MessagePlaces(sender.last, "RocketDeath", id) : b < d

\* A step of SendUpdateMessages.
IsSend == sends_since_clear' = sends_since_clear + 1

\* SendUpdateMessages sends one state message for every rocket of rockets_
\* and for no other, none for a rocket whose death was sent before, and the
\* birth of every rocket shot since the queues were last cleared whose death
\* it sends.
FlushOfLiveRockets ==
    IsSend =>
       /\ \A id \in 1 .. MaxShots :
             /\ Cardinality(MessagePlaces(sender'.last, "RocketState", id))
                   = Cardinality({ r \in DOMAIN rockets_ : rockets_[r].rocket_id = id })
             /\ id \in sender.dead => MessagePlaces(sender'.last, "RocketState", id) = {}
             /\ (MessagePlaces(sender'.last, "RocketDeath", id) # {} /\ id >= sender.first_id)
                => MessagePlaces(sender'.last, "RocketBirth", id) # {}

\* C38: every SendUpdateMessages sends the rocket births before the rocket
\* deaths and both before the rockets' states; it sends a state only for the
\* rockets of rockets_, none for a rocket whose death it sends or has sent
\* before; and of a rocket of finite speed shot and removed since the queues
\* were cleared it sends the birth before the death.
C38_RocketBirthsDeathsStates ==
    /\ [](FlushInOrder)
    /\ [][FlushOfLiveRockets]_vars

\* A flush with the birth and the death of one rocket and the state of
\* another.
C38_Witness ==
    /\ \E id \in 1 .. MaxShots :
          /\ MessagePlaces(sender.last, "RocketBirth", id) # {}
          /\ MessagePlaces(sender.last, "RocketDeath", id) # {}
          /\ id >= sender.first_id
    /\ \E id \in 1 .. MaxShots : MessagePlaces(sender.last, "RocketState", id) # {}


\* Tick's loop is done: the state that Tick leaves, up to the lock.
SoundTickDone == sound_pc = "tick_unlock"

\* When Tick began the source was in use and its channel had played every
\* sample of its sound.
PlayedAll(i) ==
    /\ ~tick_start.sources_[i].is_free
    /\ tick_start.channels[i].is_active
    /\ tick_start.channels[i].src_sound_data # nullptr
    /\ tick_start.channels[i].position_samples >= SampleCount(tick_start.channels[i])

FreeSources == { i \in ChannelIds : sources_[i].is_free }

\* What PlayHeadSound( sound_number ) would do now.
HeadSoundTakesLowest(sound_number) ==
    LET sources == HeadSoundSources(sources_, sound_number)
    IN  IF FreeSources = {} \/ global_sounds_[sound_number + 1] = nullptr
        THEN sources = sources_
        ELSE \E i \in FreeSources :
                /\ \A j \in FreeSources : i <= j
                /\ sources[i] = [is_free |-> FALSE, sound_id |-> sound_number,
                                 pos_samples |-> 0]
                /\ \A j \in ChannelIds \ {i} : sources[j] = sources_[j]

\* A step of PlayHeadSound that changes the sources is that of one of the
\* loaded sounds.
HeadSoundStep ==
    (sound_pc = "idle" /\ sources_' # sources_)
    => \E sound_number \in SoundNumbers :
          /\ global_sounds_[sound_number + 1] # nullptr
          /\ sources_' = HeadSoundSources(sources_, sound_number)

\* C39: when Tick is done, the channel i is active exactly when the source i
\* is not free, and every source whose channel had played all samples of its
\* sound is free; PlayHeadSound takes the free source of the lowest index
\* and changes nothing when no source is free or the sound is not loaded.
C39_ChannelActiveIffSourceInUse ==
    /\ [](SoundTickDone =>
             \A i \in ChannelIds :
                /\ channels[i].is_active <=> ~sources_[i].is_free
                /\ PlayedAll(i) => sources_[i].is_free)
    /\ [](\A sound_number \in SoundNumbers : HeadSoundTakesLowest(sound_number))
    /\ [][HeadSoundStep]_vars

\* Tick is done; it has freed a source whose sound was over and has left
\* another, whose sound goes on, in use.
C39_Witness ==
    /\ SoundTickDone
    /\ PlayedAll(2) /\ sources_[2].is_free
    /\ ~sources_[1].is_free /\ channels[1].is_active
    /\ channels[1].position_samples < SampleCount(channels[1])


\* The places of Tick and of the destructor at which the next statement
\* writes to a channel.
WritingChannels == sound_pc \in {"tick", "tick_fill", "tick_over", "destructor"}

\* A step of the sound engine's thread that changes a channel.
ChannelWrite ==
    /\ channels' # channels
    /\ sound_pc' # sound_pc \/ sound_i' # sound_i

\* What the mixer may find when it gets the channels: every active channel
\* has the data of a sound that still exists.
ChannelsPlayable ==
    \A i \in ChannelIds :
       channels[i].is_active
       => /\ channels[i].src_sound_data # nullptr
          /\ sound_pc # "destroyed"

\* C40: the sound engine writes to the driver's channels, in Tick and in the
\* destructor, only with the lock it took by LockChannels and has not yet
\* given back; every LockChannels is followed by one UnlockChannels, after
\* which no lock is held; after the destructor no channel is active; and
\* whenever the channels are unlocked, which is when the mixer runs, no
\* channel is half written and no active channel has lost its sound data.
C40_ChannelsWrittenUnderLock ==
    /\ [](driver_locks \in {0, 1})
    /\ [](WritingChannels => driver_locks = 1)
    /\ [][ChannelWrite => (driver_locks = 1 /\ driver_locks' = 1)]_vars
    /\ [](driver_locks = 0 <=> sound_pc \in {"idle", "destroyed"})
    /\ (driver_locks = 1) ~> (driver_locks = 0)
    /\ [](sound_pc = "destroyed" => \A i \in ChannelIds : ~channels[i].is_active)
    /\ [](driver_locks = 0 => ChannelsPlayable)

\* The engine is destroyed; its destructor has stopped a channel in the
\* middle of a sound.
C40_Witness ==
    /\ sound_pc = "destroyed"
    /\ driver_locks = 0
    /\ \E i \in ChannelIds :
          /\ ~sources_[i].is_free
          /\ channels[i].src_sound_data = sources_[i].sound_id
          /\ channels[i].position_samples > 0
          /\ channels[i].position_samples < SampleCount(channels[i])

====
